---- MODULE Spec2Model ----
(***************************************************************************)
(* Model of the documentation-hierarchy code of upload-charm-docs:         *)
(*   - sort.using_contents_index (src/src/sort.py), the Document Order     *)
(*     Merger, with its nested generator _contents_index_iter;             *)
(*   - index._calculate_contents_hierarchy (src/src/index.py), the         *)
(*     Hierarchy Builder, with _check_contents_item;                       *)
(*   - index._get_contents_parsed_items (src/src/index.py), the Contents   *)
(*     List Parser, with _parse_item_from_line and its regular expression; *)
(*   - navigation_table.from_page, the Navigation Table Parser: its source *)
(*     is not part of src/, so its breadcrumb reconstruction and its       *)
(*     permission check follow section 4.3 of the specification and        *)
(*     src/tests/unit/test_navigation_table.py;                            *)
(*   - run_reconcile and run_migrate (src/src/__init__.py), with the       *)
(*     clients and the imported functions as collaborators whose calls are *)
(*     recorded in run_calls;                                              *)
(*   - index.get and index.contents_from_page (src/src/index.py), the      *)
(*     retrieval of the index page and the cut at the navigation table.    *)
(*                                                                         *)
(* Paths are sequences of path segments relative to base_dir, so base_dir  *)
(* itself is the empty sequence and `base_dir / reference_value` is the    *)
(* reference value's own segments.  The file system is the set `fs` of the *)
(* paths that exist under base_dir; a segment name tells a directory from  *)
(* a file, as "dir_1" and "file_1.md" do in the unit tests.                *)
(***************************************************************************)
EXTENDS Integers, Sequences, FiniteSets, TLC

\* ------------------------------------------------------------------ bounds
\* Longest path (in segments) the file system holds.
MaxDepth == 3
\* Most PathInfos handed to using_contents_index.
MaxInfos == 3
\* Most IndexContentsListItems handed to using_contents_index.
MaxItems == 3
\* Most paths under base_dir when the contents list is read.
MaxPaths == 3
\* Most items the contents list holds.
MaxParsed == 4
\* Most leading spaces of a contents list line.
MaxWhitespace == 2
\* Most lines of the index file.
MaxLines == 4
\* Most list lines of an index file written with every leader.
MaxListLines == 2
\* Most rows of the navigation table, and the largest level a row states.
MaxRows == 3
MaxLevel == 3
\* Most actions get_reconcile_actions yields in one run_reconcile.
MaxActions == 2

\* ------------------------------------------------------------- file system
DirNames == {"d"}
FileNames == {"f", "g"}
Names == DirNames \cup FileNames

Last(p) == p[Len(p)]

\* The paths of exactly n segments: every segment but the last names a directory.
RECURSIVE PathsOfLen(_)
PathsOfLen(n) ==
    IF n = 1
    THEN {<<x>> : x \in Names}
    ELSE {Append(p, x) : p \in {q \in PathsOfLen(n - 1) : Last(q) \in DirNames},
                         x \in Names}

AllPaths == UNION {PathsOfLen(n) : n \in 1..MaxDepth}

\* Path(): the base directory, relative to itself.
base_dir == <<>>

\* pathlib: `p.parent` of a path of one or more segments.
Parent(p) == SubSeq(p, 1, Len(p) - 1)

\* A file system is a set of paths closed under taking the parent.
FileSystems == {s \in SUBSET AllPaths : \A p \in s : Len(p) > 1 => Parent(p) \in s}

\* pathlib: `a in b.parents`, a is a proper ancestor of b.
InParents(a, b) == Len(a) < Len(b) /\ SubSeq(b, 1, Len(a)) = a

VARIABLES
    fs,                                 \* the paths that exist under base_dir
    alphabetically_sorted_path_infos,   \* sort.py:34
    rank_sorted_index_contents,         \* sort.py:37
    local_path_yielded,                 \* sort.py:40
    items_pos,                          \* the position of the peekable `items` (sort.py:51)
    sort_stack,                         \* the active _contents_index_iter invocations
    sort_out,                           \* the PathInfos using_contents_index has yielded
    sort_src,                           \* for each of them, what yielded it (history)
    sort_flushes,                       \* the flushes performed at sort.py:86-98 (history)
    sort_pc,                            \* "walk", "done", or the exception raised
    parsed_items,                       \* the _ParsedListItems read so far from the iterator
    parsed_pos,                         \* how many of them the peekable has handed out
    parsed_end,                         \* the iterator under the peekable is exhausted
    hier_stack,                         \* the active _calculate_contents_hierarchy invocations
    hier_out,                           \* the IndexContentsListItems yielded so far
    hier_pc,                            \* "run", "done", or the InputError raised
    hier_error,                         \* what the message of that InputError reports
    has_content,                        \* index_file.content is not None
    lines,                              \* index_file.content.splitlines() (index.py:167)
    line_pos,                           \* how many of them the parser has read
    rank_count,                         \* the next value of itertools.count() (index.py:180)
    parse_out,                          \* the _ParsedListItems the parser has yielded
    parse_src,                          \* for each of them, the line it came from (history)
    parse_pc,                           \* "start", "section", "done", or the InputError raised
    parse_error,                        \* the line that InputError names
    table_rows,                         \* the rows of the navigation table, as read
    row_pos,                            \* how many of them have been handled
    breadcrumb,                         \* the stack of path segments
    nav_out,                            \* the TableRows from_page has yielded
    nav_checked,                        \* the URLs check_topic_write_permission was given
    nav_pc,                             \* "run", "done", or the error raised
    run_inputs,                         \* what the clients and user_inputs answer to a run
    run_pc,                             \* where run_reconcile or run_migrate stands
    run_calls,                          \* the calls made to the collaborators (history)
    run_reports,                        \* the reports of the actions executed so far
    run_return,                         \* the mapping the run returns
    index_inputs,                       \* the metadata, the docs folder and the server of index.get
    index_pc,                           \* where index.get stands
    index_calls,                        \* the URLs retrieve_topic was called with (history)
    index_server,                       \* `server` of index.get (index.py:69-71)
    index_return,                       \* the Index that index.get returns
    page,                               \* the page given to contents_from_page
    page_pc,                            \* "start" or "returned"
    page_contents                       \* what contents_from_page returns

sortVars == <<alphabetically_sorted_path_infos, rank_sorted_index_contents,
              local_path_yielded, items_pos, sort_stack, sort_out, sort_src, sort_flushes,
              sort_pc>>

hierVars == <<parsed_items, parsed_pos, parsed_end, hier_stack, hier_out, hier_pc, hier_error>>

parseVars == <<has_content, lines, line_pos, rank_count, parse_out, parse_src, parse_pc,
               parse_error>>

navVars == <<table_rows, row_pos, breadcrumb, nav_out, nav_checked, nav_pc>>

runVars == <<run_inputs, run_pc, run_calls, run_reports, run_return>>

indexVars == <<index_inputs, index_pc, index_calls, index_server, index_return>>

pageVars == <<page, page_pc, page_contents>>

vars == <<fs, sortVars, hierVars, parseVars, navVars, runVars, indexVars, pageVars>>

\* What the merger leaves alone, and what the hierarchy builder leaves alone.
notSortVars == <<fs, hierVars, parseVars, navVars, runVars, indexVars, pageVars>>
notHierVars == <<fs, sortVars, parseVars, navVars, runVars, indexVars, pageVars>>
notParseVars == <<fs, sortVars, hierVars, navVars, runVars, indexVars, pageVars>>
notNavVars == <<fs, sortVars, hierVars, parseVars, runVars, indexVars, pageVars>>
notRunVars == <<fs, sortVars, hierVars, parseVars, navVars, indexVars, pageVars>>

notIndexVars == <<fs, sortVars, hierVars, parseVars, navVars, runVars, pageVars>>
notPageVars == <<fs, sortVars, hierVars, parseVars, navVars, runVars, indexVars>>

\* Neither index.get nor contents_from_page is running.
IndexIdle ==
    /\ index_inputs = <<>>
    /\ index_pc = "idle"
    /\ index_calls = <<>>
    /\ index_server = <<>>
    /\ index_return = <<>>
    /\ page = <<>>
    /\ page_pc = "idle"
    /\ page_contents = <<>>

\* Neither run_reconcile nor run_migrate is running, nor the functions of index
\* that stand on their own.
RunIdle ==
    /\ IndexIdle
    /\ run_inputs = <<>>
    /\ run_pc = "idle"
    /\ run_calls = <<>>
    /\ run_reports = <<>>
    /\ run_return = {}

\* The navigation table parser is not running.
NavIdle ==
    /\ table_rows = <<>>
    /\ row_pos = 0
    /\ breadcrumb = <<>>
    /\ nav_out = <<>>
    /\ nav_checked = <<>>
    /\ nav_pc = "idle"

\* The parser is not running.
ParseIdle ==
    /\ has_content = FALSE
    /\ lines = <<>>
    /\ line_pos = 0
    /\ rank_count = 0
    /\ parse_out = <<>>
    /\ parse_src = <<>>
    /\ parse_pc = "idle"
    /\ parse_error = <<>>

\* A file test that looks at the name only, not at what exists.
NamedAsFile(p) == Last(p) \in FileNames

\* Path.is_dir() / Path.is_file() of base_dir / p.
IsDir(p) == p \in fs /\ Last(p) \in DirNames
IsFile(p) == p \in fs /\ Last(p) \in FileNames

\* ------------------------------------------------------------------ helpers
Range(s) == {s[i] : i \in DOMAIN s}

\* The permutations of 1..n, as sequences.
Perms(n) == {p \in [1..n -> 1..n] : \A i, j \in 1..n : p[i] = p[j] => i = j}

\* The sequences without repetition of at most n elements of S.
DistinctSeqs(S, n) ==
    UNION {{s \in [1..k -> S] : \A i, j \in 1..k : s[i] = s[j] => i = j} : k \in 0..n}

\* Some enumeration of a finite set (the order a caller happens to supply).
RECURSIVE SetToSeq(_)
SetToSeq(S) ==
    IF S = {} THEN <<>>
    ELSE LET x == CHOOSE y \in S : TRUE IN <<x>> \o SetToSeq(S \ {x})

\* Python's sorted(seq, key=lambda r: r.<field>): ascending and stable.
RECURSIVE InsertByKey(_, _, _)
InsertByKey(sortedSeq, x, field) ==
    IF sortedSeq = <<>> THEN <<x>>
    ELSE IF sortedSeq[Len(sortedSeq)][field] <= x[field]
         THEN Append(sortedSeq, x)
         ELSE Append(InsertByKey(SubSeq(sortedSeq, 1, Len(sortedSeq) - 1), x, field),
                     sortedSeq[Len(sortedSeq)])

RECURSIVE SortedBy(_, _)
SortedBy(seq, field) ==
    IF seq = <<>> THEN <<>>
    ELSE InsertByKey(SortedBy(SubSeq(seq, 1, Len(seq) - 1), field), seq[Len(seq)], field)

\* filter(pred, seq) for a set of accepted elements.
RECURSIVE FilterSeq(_, _)
FilterSeq(seq, keep) ==
    IF seq = <<>> THEN <<>>
    ELSE (IF seq[1] \in keep THEN <<seq[1]>> ELSE <<>>) \o FilterSeq(Tail(seq), keep)

\* itertools.takewhile(pred, seq) for a set of accepted elements.
RECURSIVE TakeWhile(_, _)
TakeWhile(seq, keep) ==
    IF seq = <<>> \/ seq[1] \notin keep THEN <<>>
    ELSE <<seq[1]>> \o TakeWhile(Tail(seq), keep)

\* ----------------------------------------------------- sort.using_contents_index
\* The title an index item of the given rank carries (titles are opaque to the code).
TitleFor(rank) == IF rank % 2 = 0 THEN "T0" ELSE "T1"

\* types_.PathInfo; `level` stands for the fields the sort never reads.
PathInfo(path, rank) ==
    [local_path |-> path, level |-> Len(path), navlink_title |-> Last(path),
     alphabetical_rank |-> rank]

\* types_.IndexContentsListItem.
IndexContentsListItem(hierarchy, title, value, rank) ==
    [hierarchy |-> hierarchy, reference_title |-> title, reference_value |-> value,
     rank |-> rank]

\* sort.py:34-36
SortedPathInfos(path_infos) == SortedBy(path_infos, "alphabetical_rank")

\* The index items left in the order they were supplied (the sort forgotten).
UnsortedIndexContents(index_contents) == index_contents

\* The index items sorted by descending rank (reverse=True).
DescendingIndexContents(index_contents) ==
    LET ascending == SortedBy(index_contents, "rank")
    IN [i \in DOMAIN ascending |-> ascending[Len(ascending) + 1 - i]]

\* sort.py:37
SortedIndexContents(index_contents) == SortedBy(index_contents, "rank")

\* The last (0-based) position of a local_path in the sorted PathInfos: a dict
\* comprehension keeps the last value written for a key.
LastIndexOf(path) ==
    LET A == alphabetically_sorted_path_infos
        hits == {i \in DOMAIN A : A[i].local_path = path}
    IN (CHOOSE i \in hits : \A j \in hits : j <= i) - 1

\* sort.py:43-45
local_path_path_info ==
    LET A == alphabetically_sorted_path_infos
    IN [p \in {A[i].local_path : i \in DOMAIN A} |-> A[LastIndexOf(p) + 1]]

\* sort.py:46-50
directories_index ==
    LET A == alphabetically_sorted_path_infos
    IN [p \in {A[i].local_path : i \in {j \in DOMAIN A : IsDir(A[j].local_path)}}
          |-> LastIndexOf(p)]

\* items.peek(None), as a position in rank_sorted_index_contents (0 is None).
PeekAt(pos) == IF pos <= Len(rank_sorted_index_contents) THEN pos ELSE 0

\* The PathInfo passed on without the title of the index item.
UntitledPathInfo(item_path_info, item) == item_path_info

\* sort.py:73-75
RetitledPathInfo(item_path_info, item) ==
    [item_path_info EXCEPT !.navlink_title = item.reference_title]

\* sort.py:85
IsLastItemInDirectory(next_item, current_hierarchy) ==
    \/ next_item = 0
    \/ rank_sorted_index_contents[next_item].hierarchy < current_hierarchy

\* sort.py:87-94, for a current_dir that directories_index holds
PathInfosForDirNotYielded(current_dir) ==
    LET A == alphabetically_sorted_path_infos
        from_dir == SubSeq(A, directories_index[current_dir] + 1, Len(A))
        path_infos_for_dir ==
            TakeWhile(from_dir, {x \in Range(A) : InParents(current_dir, x.local_path)})
    IN FilterSeq(path_infos_for_dir,
                 {x \in Range(A) : ~local_path_yielded[x.local_path]})

\* sort.py:102-105
FinalPassPathInfos ==
    LET A == alphabetically_sorted_path_infos
    IN FilterSeq(A, {x \in Range(A) : ~~local_path_yielded[x.local_path]})

\* How an emitted PathInfo came about.
Source(by, frame, rank) ==
    [by |-> by, current_dir |-> frame.current_dir,
     current_hierarchy |-> frame.current_hierarchy, rank |-> rank]

Frame(current_dir, current_hierarchy) ==
    [current_dir |-> current_dir, current_hierarchy |-> current_hierarchy,
     pc |-> "loop", next_item |-> 0]

Top(stack) == stack[Len(stack)]
Pop(stack) == SubSeq(stack, 1, Len(stack) - 1)
ReplaceTop(stack, frame) == [stack EXCEPT ![Len(stack)] = frame]

\* The hierarchy builder is not running.
HierIdle ==
    /\ parsed_items = <<>>
    /\ parsed_pos = 0
    /\ parsed_end = TRUE
    /\ hier_stack = <<>>
    /\ hier_out = <<>>
    /\ hier_pc = "idle"
    /\ hier_error = <<>>

\* The state when using_contents_index reaches `yield from _contents_index_iter()`
\* (sort.py:33-51, 100), for every file system of at most MaxInfos paths, every
\* assignment of distinct alphabetical ranks to its paths and every list of at most
\* MaxItems index items with distinct ranks, each referencing another existing path.
\* An item's hierarchy is the number of segments of its reference, which is what
\* _calculate_contents_hierarchy gives it (index.py:266-289).
InitSort ==
    \E files \in {s \in FileSystems : Cardinality(s) <= MaxInfos} :
        /\ fs = files
        /\ \E ranks \in Perms(Cardinality(files)) :
            LET supplied == SetToSeq(files)
                path_infos ==
                    [i \in DOMAIN supplied |-> PathInfo(supplied[i], ranks[i] - 1)]
            IN alphabetically_sorted_path_infos = SortedPathInfos(path_infos)
        /\ \E refs \in DistinctSeqs(files, MaxItems) :
           \E item_ranks \in Perms(Len(refs)) :
            LET index_contents ==
                    [i \in DOMAIN refs |->
                        IndexContentsListItem(Len(refs[i]), TitleFor(item_ranks[i] - 1),
                                              refs[i], item_ranks[i] - 1)]
            IN rank_sorted_index_contents = SortedIndexContents(index_contents)
        /\ local_path_yielded = [p \in files |-> FALSE]
        /\ items_pos = 1
        /\ sort_stack = <<Frame(base_dir, 0)>>
        /\ sort_out = <<>>
        /\ sort_src = <<>>
        /\ sort_flushes = <<>>
        /\ sort_pc = "walk"
        /\ HierIdle
        /\ ParseIdle
        /\ NavIdle
        /\ RunIdle

\* sort.py:64-82: one iteration of the while loop up to the recursive call.
ConsumeItem ==
    /\ sort_pc = "walk"
    /\ sort_stack # <<>>
    /\ Top(sort_stack).pc = "loop"
    /\ PeekAt(items_pos) # 0
    /\ LET frame == Top(sort_stack)
           item == rank_sorted_index_contents[items_pos]
           next_item == PeekAt(items_pos + 1)
           path == base_dir \o item.reference_value
       IN /\ items_pos' = items_pos + 1
          /\ IF path \notin DOMAIN local_path_path_info
             THEN /\ sort_pc' = "KeyError"
                  /\ sort_stack' = <<>>
                  /\ UNCHANGED <<sort_out, sort_src>>
             ELSE LET item_path_info == local_path_path_info[path]
                      checking == [frame EXCEPT !.pc = "check", !.next_item = next_item]
                  IN /\ sort_out' = Append(sort_out, RetitledPathInfo(item_path_info, item))
                     /\ sort_src' = Append(sort_src, Source("item", frame, item.rank))
                     /\ sort_stack' =
                            IF IsDir(item_path_info.local_path)
                            THEN Append(ReplaceTop(sort_stack, checking),
                                        Frame(item_path_info.local_path,
                                              frame.current_hierarchy + 1))
                            ELSE ReplaceTop(sort_stack, checking)
                     /\ UNCHANGED sort_pc
    /\ UNCHANGED <<notSortVars, alphabetically_sorted_path_infos, rank_sorted_index_contents,
                   local_path_yielded, sort_flushes>>

\* sort.py:64: the peek finds no item and the invocation returns to its caller.
ReturnFromIter ==
    /\ sort_pc = "walk"
    /\ sort_stack # <<>>
    /\ Top(sort_stack).pc = "loop"
    /\ PeekAt(items_pos) = 0
    /\ sort_stack' = Pop(sort_stack)
    /\ UNCHANGED <<notSortVars, alphabetically_sorted_path_infos, rank_sorted_index_contents,
                   local_path_yielded, items_pos, sort_out, sort_src, sort_flushes,
                   sort_pc>>

\* sort.py:84-98: the check for the last item of the directory, and the flush.
CheckLastItem ==
    /\ sort_pc = "walk"
    /\ sort_stack # <<>>
    /\ Top(sort_stack).pc = "check"
    /\ LET frame == Top(sort_stack)
           looping == [frame EXCEPT !.pc = "loop", !.next_item = 0]
       IN IF ~IsLastItemInDirectory(frame.next_item, frame.current_hierarchy)
          THEN /\ sort_stack' = ReplaceTop(sort_stack, looping)
               /\ UNCHANGED <<local_path_yielded, sort_out, sort_src, sort_flushes,
                              sort_pc>>
          ELSE IF frame.current_dir \notin DOMAIN directories_index
          THEN /\ sort_pc' = "KeyError"
               /\ sort_stack' = <<>>
               /\ UNCHANGED <<local_path_yielded, sort_out, sort_src, sort_flushes>>
          ELSE LET flushed == PathInfosForDirNotYielded(frame.current_dir)
               IN /\ sort_out' = sort_out \o flushed
                  /\ sort_src' = sort_src \o
                        [i \in DOMAIN flushed |-> Source("flush", frame, -1)]
                  /\ local_path_yielded' =
                        [p \in DOMAIN local_path_yielded |->
                            \/ local_path_yielded[p]
                            \/ \E i \in DOMAIN flushed : flushed[i].local_path = p]
                  /\ sort_flushes' =
                        Append(sort_flushes,
                               [current_dir |-> frame.current_dir,
                                at |-> Len(sort_out) + Len(flushed)])
                  /\ sort_stack' = ReplaceTop(sort_stack, looping)
                  /\ UNCHANGED sort_pc
    /\ UNCHANGED <<notSortVars, alphabetically_sorted_path_infos, rank_sorted_index_contents,
                   items_pos>>

\* sort.py:101-105: the walk is over; yield all items not yet yielded.
FinalPass ==
    /\ sort_pc = "walk"
    /\ sort_stack = <<>>
    /\ LET final == FinalPassPathInfos
       IN /\ sort_out' = sort_out \o final
          /\ sort_src' = sort_src \o
                [i \in DOMAIN final |-> Source("final", Frame(base_dir, 0), -1)]
    /\ sort_pc' = "done"
    /\ UNCHANGED <<notSortVars, alphabetically_sorted_path_infos, rank_sorted_index_contents,
                   local_path_yielded, items_pos, sort_stack, sort_flushes>>

NextSort == ConsumeItem \/ ReturnFromIter \/ CheckLastItem \/ FinalPass

SpecSort == InitSort /\ [][NextSort]_vars

\* ------------------------------------------- index._calculate_contents_hierarchy
\* index._ParsedListItem (index.py:96-109).
ParsedListItem(whitespace_count, title, value, rank) ==
    [whitespace_count |-> whitespace_count, reference_title |-> title,
     reference_value |-> value, rank |-> rank]

\* The merger is not running.
SortIdle ==
    /\ alphabetically_sorted_path_infos = <<>>
    /\ rank_sorted_index_contents = <<>>
    /\ local_path_yielded = <<>>
    /\ items_pos = 1
    /\ sort_stack = <<>>
    /\ sort_out = <<>>
    /\ sort_src = <<>>
    /\ sort_flushes = <<>>
    /\ sort_pc = "idle"

\* One invocation of _calculate_contents_hierarchy (index.py:224-230); pc is "loop"
\* at the head of the while loop and "process" once the item has been taken.
HierFrame(aggregate_dir, hierarchy, whitespace_expectation) ==
    [aggregate_dir |-> aggregate_dir, hierarchy |-> hierarchy,
     whitespace_expectation |-> whitespace_expectation, pc |-> "loop"]

\* parsed_items.peek(default=None) can answer: the next item has been read from the
\* iterator, or the iterator is known to be exhausted.
PeekReady == Len(parsed_items) > parsed_pos \/ parsed_end

\* parsed_items.peek(default=None), as a position in parsed_items (0 is None).
PeekParsed == IF Len(parsed_items) > parsed_pos THEN parsed_pos + 1 ELSE 0

\* _check_contents_item without its whitespace check (index.py:201-205 left out).
UncheckedWhitespace(item, whitespace_expectation, aggregate_dir) ==
    LET item_path == item.reference_value
    IN IF ~(Len(aggregate_dir) <= Len(item_path)
            /\ SubSeq(item_path, 1, Len(aggregate_dir)) = aggregate_dir)
       THEN "not within the directory of its parent"
       ELSE IF Len(item_path) - Len(aggregate_dir) # 1
       THEN "not immediately within the directory of its parent"
       ELSE "ok"

\* _check_contents_item without the check on the number of levels (index.py:217-221
\* left out).
UncheckedLevels(item, whitespace_expectation, aggregate_dir) ==
    LET item_path == item.reference_value
    IN IF item.whitespace_count > whitespace_expectation
       THEN "more whitespace"
       ELSE IF ~(Len(aggregate_dir) <= Len(item_path)
                 /\ SubSeq(item_path, 1, Len(aggregate_dir)) = aggregate_dir)
       THEN "not within the directory of its parent"
       ELSE "ok"

\* _check_contents_item with a whitespace check that tolerates one space too many.
LenientWhitespace(item, whitespace_expectation, aggregate_dir) ==
    LET item_path == item.reference_value
    IN IF item.whitespace_count > whitespace_expectation + 1
       THEN "more whitespace"
       ELSE IF ~(Len(aggregate_dir) <= Len(item_path)
                 /\ SubSeq(item_path, 1, Len(aggregate_dir)) = aggregate_dir)
       THEN "not within the directory of its parent"
       ELSE IF Len(item_path) - Len(aggregate_dir) # 1
       THEN "not immediately within the directory of its parent"
       ELSE "ok"

\* index.py:200-221: "ok", or the InputError _check_contents_item raises.
CheckContentsItem(item, whitespace_expectation, aggregate_dir) ==
    LET item_path == item.reference_value
    IN IF item.whitespace_count > whitespace_expectation
       THEN "more whitespace"
       ELSE IF ~(Len(aggregate_dir) <= Len(item_path)
                 /\ SubSeq(item_path, 1, Len(aggregate_dir)) = aggregate_dir)
       THEN "not within the directory of its parent"
       ELSE IF Len(item_path) - Len(aggregate_dir) # 1
       THEN "not immediately within the directory of its parent"
       ELSE "ok"

\* What the message of an InputError reports (index.py:202-205, 212-215, 218-221,
\* 291): the item, and the expected whitespace count or the expected parent path.
InputError(item, expected) == [item |-> item, expected |-> expected]

\* The hierarchy of the invocation itself given to the item (the + 1 forgotten).
InvocationHierarchy(hierarchy) == hierarchy

\* index.py:269 and 277: the hierarchy of an item found by an invocation.
ItemHierarchy(hierarchy) == hierarchy + 1

\* An emitted item whose rank is taken from the hierarchy of the invocation.
HierarchyRankedItem(item, hierarchy) ==
    IndexContentsListItem(ItemHierarchy(hierarchy), item.reference_title,
                          item.reference_value, hierarchy)

\* A recursion that keeps the hierarchy of its caller.
SameHierarchy(hierarchy) == hierarchy

\* index.py:287: the hierarchy of the invocation for the children of a directory.
ChildHierarchy(hierarchy) == hierarchy + 1

\* index.py:268-273 and 276-281
ContentsListItem(item, hierarchy) ==
    IndexContentsListItem(ItemHierarchy(hierarchy), item.reference_title,
                          item.reference_value, item.rank)

\* index.py:267-273: what the file branch yields.
YieldedForFile(item, hierarchy) == <<ContentsListItem(item, hierarchy)>>

\* A directory branch that yields nothing for the directory itself.
NothingYielded(item, hierarchy) == <<>>

\* index.py:275-281: what the directory branch yields before it recurses.
YieldedForDirectory(item, hierarchy) == <<ContentsListItem(item, hierarchy)>>

\* The state when get_contents has built the generator (index.py:304-305), for
\* every file system under base_dir; the contents list is read item by item.
InitHier ==
    /\ fs \in {s \in FileSystems : Cardinality(s) <= MaxPaths}
    /\ parsed_items = <<>>
    /\ parsed_pos = 0
    /\ parsed_end = FALSE
    /\ hier_stack = <<HierFrame(base_dir, 0, 0)>>
    /\ hier_out = <<>>
    /\ hier_pc = "run"
    /\ hier_error = <<>>
    /\ SortIdle
    /\ ParseIdle
    /\ NavIdle
    /\ RunIdle

\* The reference values of the contents list: the paths written with the
\* directory name and one file name.
ReferenceValues == {p \in AllPaths : \A i \in DOMAIN p : p[i] \in {"d", "f"}}

\* The iterator under the peekable hands over the next parsed item (index.py:178-181),
\* read when the builder first peeks at it.
ReadParsedItem ==
    /\ hier_pc = "run"
    /\ ~PeekReady
    /\ Len(parsed_items) < MaxParsed
    /\ \E whitespace_count \in 0..MaxWhitespace, value \in ReferenceValues :
            parsed_items' =
                Append(parsed_items,
                       ParsedListItem(whitespace_count, TitleFor(Len(parsed_items)), value,
                                      Len(parsed_items)))
    /\ UNCHANGED <<notHierVars, parsed_pos, parsed_end, hier_stack, hier_out, hier_pc, hier_error>>

\* The iterator under the peekable is exhausted.
ReadParsedEnd ==
    /\ hier_pc = "run"
    /\ ~PeekReady
    /\ parsed_end' = TRUE
    /\ UNCHANGED <<notHierVars, parsed_items, parsed_pos, hier_stack, hier_out, hier_pc, hier_error>>

\* The iterator under the peekable raises when it is read: _parse_item_from_line
\* rejects the next line of the contents section (index.py:129-141), and the
\* InputError leaves the builder through the peek that asked for the item
\* (index.py:249, 264).
ReadParsedRaises ==
    /\ hier_pc = "run"
    /\ ~PeekReady
    /\ hier_pc' = "invalid item"
    /\ hier_stack' = <<>>
    /\ UNCHANGED <<notHierVars, parsed_items, parsed_pos, parsed_end, hier_out, hier_error>>

\* A test that also hands an item of the directory itself back to the caller.
OuterOrSameDirectory(next_item, whitespace_expectation) ==
    next_item.whitespace_count <= whitespace_expectation

\* index.py:251: all items in the current directory have been processed.
OuterDirectory(next_item, whitespace_expectation) ==
    next_item.whitespace_count < whitespace_expectation

\* index.py:249-252: no item is left, or the next one belongs to an outer directory.
ReturnFromHierarchy ==
    /\ hier_pc = "run"
    /\ Top(hier_stack).pc = "loop"
    /\ PeekReady
    /\ \/ PeekParsed = 0
       \/ /\ PeekParsed # 0
          /\ OuterDirectory(parsed_items[PeekParsed], Top(hier_stack).whitespace_expectation)
    /\ hier_stack' = Pop(hier_stack)
    /\ hier_pc' = IF Len(hier_stack) = 1 THEN "done" ELSE "run"
    /\ UNCHANGED <<notHierVars, parsed_items, parsed_pos, parsed_end, hier_out, hier_error>>

\* index.py:254-264: check the next item and advance the iterator past it.
CheckAndAdvance ==
    /\ hier_pc = "run"
    /\ Top(hier_stack).pc = "loop"
    /\ PeekParsed # 0
    /\ ~OuterDirectory(parsed_items[PeekParsed], Top(hier_stack).whitespace_expectation)
    /\ LET frame == Top(hier_stack)
           checked == CheckContentsItem(parsed_items[PeekParsed],
                                        frame.whitespace_expectation, frame.aggregate_dir)
       IN IF checked # "ok"
          THEN /\ hier_pc' = checked
               /\ hier_error' = InputError(parsed_items[PeekParsed],
                                           IF checked = "more whitespace"
                                           THEN frame.whitespace_expectation
                                           ELSE frame.aggregate_dir)
               /\ hier_stack' = <<>>
               /\ UNCHANGED parsed_pos
          ELSE /\ parsed_pos' = parsed_pos + 1
               /\ hier_stack' = ReplaceTop(hier_stack, [frame EXCEPT !.pc = "process"])
               /\ UNCHANGED <<hier_pc, hier_error>>
    /\ UNCHANGED <<notHierVars, parsed_items, parsed_end, hier_out>>

\* index.py:266-291: yield the item taken; a directory followed by a more indented
\* item starts the invocation for its children.
ProcessItem ==
    /\ hier_pc = "run"
    /\ Top(hier_stack).pc = "process"
    /\ PeekReady
    /\ LET frame == Top(hier_stack)
           item == parsed_items[parsed_pos]
           item_path == item.reference_value
           next_item == PeekParsed
           looping == ReplaceTop(hier_stack, [frame EXCEPT !.pc = "loop"])
       IN IF IsFile(base_dir \o item_path)
          THEN /\ hier_out' = hier_out \o YieldedForFile(item, frame.hierarchy)
               /\ hier_stack' = looping
               /\ UNCHANGED <<hier_pc, hier_error>>
          ELSE IF IsDir(base_dir \o item_path)
          THEN /\ hier_out' = hier_out \o YieldedForDirectory(item, frame.hierarchy)
               /\ hier_stack' =
                    IF /\ next_item # 0
                       /\ parsed_items[next_item].whitespace_count
                            > frame.whitespace_expectation
                    THEN Append(looping,
                                HierFrame(item_path, ChildHierarchy(frame.hierarchy),
                                          parsed_items[next_item].whitespace_count))
                    ELSE looping
               /\ UNCHANGED <<hier_pc, hier_error>>
          ELSE /\ hier_pc' = "not a file or directory"
               /\ hier_error' = InputError(item, <<>>)
               /\ hier_stack' = <<>>
               /\ UNCHANGED hier_out
    /\ UNCHANGED <<notHierVars, parsed_items, parsed_pos, parsed_end>>

NextHier ==
    \/ ReadParsedItem
    \/ ReadParsedEnd
    \/ ReadParsedRaises
    \/ ReturnFromHierarchy
    \/ CheckAndAdvance
    \/ ProcessItem

SpecHier == InitHier /\ [][NextHier]_vars

\* The builder is a generator that list() drives to its end in one thread
\* (index.py:304-305 and its callers): as long as a statement is left to run, one
\* runs.
SpecHierFair == InitHier /\ [][NextHier]_vars /\ WF_vars(NextHier)

\* -------------------------------------------- index._get_contents_parsed_items
\* A line is the sequence of its characters.
\* str.lower(), for the letters the lines are written with.
LowerChar(c) ==
    IF c = "C" THEN "c" ELSE IF c = "O" THEN "o" ELSE IF c = "N" THEN "n"
    ELSE IF c = "T" THEN "t" ELSE IF c = "E" THEN "e" ELSE IF c = "S" THEN "s" ELSE c

Lower(l) == [i \in DOMAIN l |-> LowerChar(l[i])]

\* "# contents"
ContentsHeadingText == <<"#", " ", "c", "o", "n", "t", "e", "n", "t", "s">>

\* A heading test that is case sensitive ("# Contents" only).
IsCapitalisedHeading(l) == l = <<"#", " ", "C", "o", "n", "t", "e", "n", "t", "s">>

\* index.py:169: line.lower() == "# contents"
IsContentsHeading(l) == Lower(l) = ContentsHeadingText

\* index.py:173: line.startswith("#")
StartsWithHash(l) == l # <<>> /\ l[1] = "#"

\* The characters \s matches, and those \d matches.
WhitespaceChars == {" ", "\t"}
DigitChars == {"0", "1"}

\* The length of the longest prefix of l made of characters of S.
PrefixLen(l, S) ==
    CHOOSE n \in 0..Len(l) :
        /\ \A i \in 1..n : l[i] \in S
        /\ n = Len(l) \/ l[n + 1] \notin S

\* The length of the leader _LEADER matches at the start of l, 0 when it does not
\* match (index.py:22): a single digit and a dot, a star, or a dash.
LeaderLen(l) ==
    IF Len(l) >= 2 /\ l[1] \in DigitChars /\ l[2] = "." THEN 2
    ELSE IF Len(l) >= 1 /\ l[1] \in {"*", "-"} THEN 1
    ELSE 0

\* The positions i of r where "](" stands, before position last.
TitleEnds(r, last) == {i \in 2..(last - 2) : r[i] = "]" /\ r[i + 1] = "("}

\* The position of the closing parenthesis of the reference in r: with the anchor
\* \s*$ it is the last character that is not whitespace; without the anchor it is
\* the last closing parenthesis of r.  0 when there is none.
ClosingPosition(r, anchored) ==
    LET candidates ==
            IF anchored
            THEN {q \in DOMAIN r : /\ r[q] = ")"
                                   /\ \A x \in (q + 1)..Len(r) : r[x] \in WhitespaceChars}
            ELSE {q \in DOMAIN r : r[q] = ")"}
    IN IF candidates = {} THEN 0
       ELSE CHOOSE q \in candidates : \A q2 \in candidates : q2 <= q

\* _ITEM_PATTERN.match(line) (index.py:21-27, 127): leading spaces, the leader, any
\* whitespace, "[title](value)" with both groups greedy, any whitespace, the end.
\* `ok` tells whether the line matches; the groups are meaningful when it does.
MatchItem(l, anchored) ==
    LET whitespace_count == PrefixLen(l, {" "})
        after_spaces == SubSeq(l, whitespace_count + 1, Len(l))
        leader == LeaderLen(after_spaces)
        after_leader == SubSeq(after_spaces, leader + 1, Len(after_spaces))
        gap == PrefixLen(after_leader, WhitespaceChars)
        r == SubSeq(after_leader, gap + 1, Len(after_leader))
        last == ClosingPosition(r, anchored)
        ends == TitleEnds(r, last)
        title_end == IF ends = {} THEN 0 ELSE CHOOSE i \in ends : \A i2 \in ends : i2 <= i
        ok == /\ leader # 0
              /\ r # <<>>
              /\ r[1] = "["
              /\ last # 0
              /\ title_end # 0
    IN [ok |-> ok,
        whitespace_count |-> whitespace_count,
        reference_title |-> IF ok THEN SubSeq(r, 2, title_end - 1) ELSE <<>>,
        reference_value |-> IF ok THEN SubSeq(r, title_end + 2, last - 1) ELSE <<>>]

\* The pattern without its final \s*$: text may follow the reference.
UnanchoredItemPattern(l) == MatchItem(l, FALSE)

\* index.py:127
ItemPattern(l) == MatchItem(l, TRUE)

\* The lines an index file is written with: the contents heading in two spellings,
\* another heading, an empty line, a line of one space, an item with a dash leader,
\* an item with a digit leader followed by a space, an indented item with a star
\* leader, and an item followed by text.
ContentLines ==
    { <<"#", " ", "C", "o", "n", "t", "e", "n", "t", "s">>,
      <<"#", " ", "c", "o", "n", "t", "e", "n", "t", "s">>,
      <<"#", "x">>,
      <<>>,
      <<" ">>,
      <<"-", " ", "[", "a", "]", "(", "b", ")">>,
      <<"1", ".", " ", "[", "e", "]", "(", "f", ")", " ">>,
      <<" ", "*", " ", "[", "g", "]", "(", "h", ")">>,
      <<"-", " ", "[", "a", "]", "(", "b", ")", "x">> }

\* The documents of at most MaxLines lines.
Contents == UNION {[1..k -> ContentLines] : k \in 0..MaxLines}

\* A rank that counts every line after the heading, empty ones included.
LineNumberRank(index, count) ==
    index - 1 - (CHOOSE i \in DOMAIN lines : IsContentsHeading(lines[i])
                                              /\ \A j \in 1..(i - 1) : ~IsContentsHeading(lines[j]))

\* index.py:180: zip(non_empty_contents_lines, itertools.count()) gives the line at
\* position index of the document the next value of the counter.
LineRank(index, count) == count

\* A first-line check that never fires.
FirstLineUnchecked(whitespace_count, rank) == FALSE

\* index.py:137: the first item has leading whitespace.
FirstLineIndented(whitespace_count, rank) == whitespace_count # 0 /\ rank = 0

\* index.py:169-170: the number of lines read once dropwhile has reached the contents
\* heading and next() has taken it; all of them when there is no such heading.
AfterHeading ==
    LET headings == {i \in DOMAIN lines : IsContentsHeading(lines[i])}
    IN IF headings = {} THEN Len(lines)
       ELSE CHOOSE i \in headings : \A i2 \in headings : i <= i2

\* index.py:172-176: the next line takewhile looks at that is not dropped by
\* filter(None, ...): the first line after position pos that is not empty (a heading
\* included, which ends the section).  0 when the lines run out.
NextNonEmpty(pos) ==
    LET rest == {j \in (pos + 1)..Len(lines) : lines[j] # <<>>}
    IN IF rest = {} THEN 0 ELSE CHOOSE j \in rest : \A j2 \in rest : j <= j2

\* The line the next call of next() on the generator comes to (0: none).
NextLine == NextNonEmpty(IF parse_pc = "start" THEN AfterHeading ELSE line_pos)

\* The generator has not finished.
Parsing == parse_pc \in {"start", "section"}

\* The state when _get_contents_parsed_items has been called and its generator not
\* yet started, for an index file without content and for every document.
InitParse ==
    /\ has_content \in BOOLEAN
    /\ lines \in Contents
    /\ ~has_content => lines = <<>>
    /\ line_pos = 0
    /\ rank_count = 0
    /\ parse_out = <<>>
    /\ parse_src = <<>>
    /\ parse_pc = "start"
    /\ parse_error = <<>>
    /\ fs = {}
    /\ SortIdle
    /\ HierIdle
    /\ NavIdle
    /\ RunIdle

\* next() on the generator ends it: there is no content (index.py:163-164), the
\* lines run out, or the next heading is reached (index.py:172-174).
StopParsing ==
    /\ Parsing
    /\ \/ ~has_content
       \/ NextLine = 0
       \/ NextLine # 0 /\ StartsWithHash(lines[NextLine])
    /\ line_pos' = IF NextLine = 0 THEN Len(lines) ELSE NextLine
    /\ parse_pc' = "done"
    /\ UNCHANGED <<notParseVars, has_content, lines, rank_count, parse_out, parse_src,
                   parse_error>>

\* next() on the generator yields the item of the next line (index.py:143-151, 178).
YieldParsedItem ==
    /\ Parsing
    /\ has_content
    /\ NextLine # 0
    /\ ~StartsWithHash(lines[NextLine])
    /\ LET match == ItemPattern(lines[NextLine])
           rank == LineRank(NextLine, rank_count)
       IN /\ match.ok
          /\ ~FirstLineIndented(match.whitespace_count, rank)
          /\ parse_out' = Append(parse_out,
                                 ParsedListItem(match.whitespace_count, match.reference_title,
                                                match.reference_value, rank))
    /\ parse_src' = Append(parse_src, NextLine)
    /\ rank_count' = rank_count + 1
    /\ line_pos' = NextLine
    /\ parse_pc' = "section"
    /\ UNCHANGED <<notParseVars, has_content, lines, parse_error>>

\* next() on the generator raises: the next line does not match (index.py:129-133).
RaiseInvalidItem ==
    /\ Parsing
    /\ has_content
    /\ NextLine # 0
    /\ ~StartsWithHash(lines[NextLine])
    /\ ~ItemPattern(lines[NextLine]).ok
    /\ parse_pc' = "invalid item"
    /\ parse_error' = [line |-> lines[NextLine], at |-> NextLine]
    /\ rank_count' = rank_count + 1
    /\ line_pos' = NextLine
    /\ UNCHANGED <<notParseVars, has_content, lines, parse_out, parse_src>>

\* next() on the generator raises: the first item is indented (index.py:135-141).
RaiseLeadingWhitespace ==
    /\ Parsing
    /\ has_content
    /\ NextLine # 0
    /\ ~StartsWithHash(lines[NextLine])
    /\ LET match == ItemPattern(lines[NextLine])
       IN /\ match.ok
          /\ FirstLineIndented(match.whitespace_count, LineRank(NextLine, rank_count))
    /\ parse_pc' = "leading whitespace"
    /\ parse_error' = [line |-> lines[NextLine], at |-> NextLine]
    /\ rank_count' = rank_count + 1
    /\ line_pos' = NextLine
    /\ UNCHANGED <<notParseVars, has_content, lines, parse_out, parse_src>>

NextParse == StopParsing \/ YieldParsedItem \/ RaiseInvalidItem \/ RaiseLeadingWhitespace

SpecParse == InitParse /\ [][NextParse]_vars

\* ------------------------------------------ the parser on lists of every leader
\* List lines: with and without a leading space, with each leader (a dash, a star,
\* an ordinal of one digit and an ordinal of two digits) and one of two references.
Indents == {<<>>, <<" ">>}
Leaders == {<<"-">>, <<"*">>, <<"1", ".">>, <<"1", "0", ".">>}
References == {<<"[", "a", "]", "(", "b", ")">>, <<"[", "c", "]", "(", "d", ")">>}

ListLine(indent, leader, reference) == indent \o leader \o <<" ">> \o reference

ListLines ==
    {ListLine(indent, leader, reference) :
        indent \in Indents, leader \in Leaders, reference \in References}

\* The state when _get_contents_parsed_items has been called on an index file whose
\* content is the contents heading followed by at most MaxListLines list lines.
InitLeaders ==
    /\ has_content = TRUE
    /\ \E k \in 0..MaxListLines :
       \E list \in [1..k -> ListLines] :
            lines = <<<<"#", " ", "C", "o", "n", "t", "e", "n", "t", "s">>>> \o list
    /\ line_pos = 0
    /\ rank_count = 0
    /\ parse_out = <<>>
    /\ parse_src = <<>>
    /\ parse_pc = "start"
    /\ parse_error = <<>>
    /\ fs = {}
    /\ SortIdle
    /\ HierIdle
    /\ NavIdle
    /\ RunIdle

SpecLeaders == InitLeaders /\ [][NextParse]_vars

\* ------------------------------------------------- navigation_table.from_page
\* The row a table line is read as (_line_to_row): its level, its own path segment
\* and the link of its navlink, "" when the link is empty (rendered as no link).
ReadRow(level, segment, link) == [level |-> level, segment |-> segment, link |-> link]

\* types_.TableRow, with the title of the navlink left out.
TableRow(level, path, link) == [level |-> level, path |-> path, link |-> link]

PathSegments == {"a", "c"}
Links == {"", "url_1", "url_2"}

\* "Pop/trim the stack to length L-1": the first L - 1 segments of the stack, all of
\* them when it holds fewer.
TrimTo(stack, length) == SubSeq(stack, 1, IF length < Len(stack) THEN length ELSE Len(stack))

\* "Append the row's own segment": the stack after a row at the given level.
NextBreadcrumb(stack, level, segment) == Append(TrimTo(stack, level - 1), segment)

\* A write-permission check that is made for every row, linked or not.
ChecksEveryRow(row) == TRUE

\* The rows the write-permission check is made for: those whose navlink has a
\* non-empty link (_check_table_row_write_permission).
ChecksWritePermission(row) == row.link # ""

\* The state when from_page starts on the rows of a page: every table of at most
\* MaxRows rows with levels up to MaxLevel.
InitNav ==
    /\ table_rows \in UNION {[1..k -> {ReadRow(level, segment, link) :
                                            level \in 1..MaxLevel,
                                            segment \in PathSegments,
                                            link \in Links}] : k \in 0..MaxRows}
    /\ row_pos = 0
    /\ breadcrumb = <<>>
    /\ nav_out = <<>>
    /\ nav_checked = <<>>
    /\ nav_pc = "run"
    /\ fs = {}
    /\ SortIdle
    /\ HierIdle
    /\ ParseIdle
    /\ RunIdle

\* The next row is emitted: it has no link, or the write-permission check of its
\* link answers true.
EmitRow ==
    /\ nav_pc = "run"
    /\ row_pos < Len(table_rows)
    /\ LET row == table_rows[row_pos + 1]
           path == NextBreadcrumb(breadcrumb, row.level, row.segment)
       IN /\ breadcrumb' = path
          /\ nav_out' = Append(nav_out, TableRow(row.level, path, row.link))
          /\ nav_checked' = IF ChecksWritePermission(row)
                            THEN Append(nav_checked, row.link)
                            ELSE nav_checked
    /\ row_pos' = row_pos + 1
    /\ UNCHANGED <<notNavVars, table_rows, nav_pc>>

\* The write-permission check of the next row's link answers false: the emission of
\* the table is aborted with a permission error.
DenyRow ==
    /\ nav_pc = "run"
    /\ row_pos < Len(table_rows)
    /\ ChecksWritePermission(table_rows[row_pos + 1])
    /\ nav_checked' = Append(nav_checked, table_rows[row_pos + 1].link)
    /\ nav_pc' = "PagePermissionError"
    /\ UNCHANGED <<notNavVars, table_rows, row_pos, breadcrumb, nav_out>>

\* The write-permission check of the next row's link fails with a DiscourseError:
\* the emission of the table is aborted with a ServerError.
FailRow ==
    /\ nav_pc = "run"
    /\ row_pos < Len(table_rows)
    /\ ChecksWritePermission(table_rows[row_pos + 1])
    /\ nav_checked' = Append(nav_checked, table_rows[row_pos + 1].link)
    /\ nav_pc' = "ServerError"
    /\ UNCHANGED <<notNavVars, table_rows, row_pos, breadcrumb, nav_out>>

\* The rows have run out.
FinishTable ==
    /\ nav_pc = "run"
    /\ row_pos = Len(table_rows)
    /\ nav_pc' = "done"
    /\ UNCHANGED <<notNavVars, table_rows, row_pos, breadcrumb, nav_out, nav_checked>>

NextNav == EmitRow \/ DenyRow \/ FailRow \/ FinishTable

SpecNav == InitNav /\ [][NextNav]_vars

\* ---------------------------------------------------------------- index.get
\* An optional value: <<>> is None, <<v>> is the value v.
None == <<>>
Some(v) == <<v>>

\* types_.Page, types_.IndexFile and types_.Index (index.py:69, 75-80).
Page(url, content) == [url |-> url, content |-> content]
IndexFile(title, content) == [title |-> title, content |-> content]
Index(server, local, name) == [server |-> server, local |-> local, name |-> name]

\* str.upper() and str.lower() of a character, for the letters the names are
\* written with.
UpperChar(c) == IF c = "a" THEN "A" ELSE IF c = "b" THEN "B" ELSE c
NameLowerChar(c) == IF c = "A" THEN "a" ELSE IF c = "B" THEN "b" ELSE c

\* The characters str.title() takes for letters.
CasedChars == {"a", "b", "A", "B"}

\* index.py:76: name_value.replace('-', ' ').title() and the fixed ending.
IndexTitle(name_value) ==
    LET replaced == [i \in DOMAIN name_value |->
                        IF name_value[i] = "-" THEN " " ELSE name_value[i]]
        titled == [i \in DOMAIN replaced |->
                        IF i = 1 \/ replaced[i - 1] \notin CasedChars
                        THEN UpperChar(replaced[i])
                        ELSE NameLowerChar(replaced[i])]
    IN titled \o <<" Documentation Overview">>

\* A retrieval that is made whatever the metadata says.
RetrievesAlways(docs) == TRUE

\* index.py:63: metadata.docs is not None (docs is None or Some(url)).
RetrievesTopic(docs) == docs # None

\* index.py:30-45: _read_docs_index, on what base_path / "docs" and
\* base_path / "docs" / "index.md" are ("missing", "file" or "dir") and on the text
\* of the index file.
ReadDocsIndex(docs_directory, index_file, text) ==
    IF docs_directory # "dir" THEN None
    ELSE IF index_file # "file" THEN None
    ELSE Some(text)

\* What is under base_path: no docs folder, a file named docs, or a docs folder
\* without index.md, with a folder of that name, or with the file and its text.
LocalDocs ==
    { [docs_directory |-> "missing", index_file |-> "missing", text |-> ""],
      [docs_directory |-> "file", index_file |-> "missing", text |-> ""],
      [docs_directory |-> "dir", index_file |-> "missing", text |-> ""],
      [docs_directory |-> "dir", index_file |-> "dir", text |-> ""],
      [docs_directory |-> "dir", index_file |-> "file", text |-> ""],
      [docs_directory |-> "dir", index_file |-> "file", text |-> "content 1"] }

\* The state when index.get is called: metadata with a name and with or without a
\* docs link, the folder under base_path, and what retrieve_topic would answer
\* (a content, or "DiscourseError" when it raises).
InitIndex ==
    /\ index_inputs \in
            [name : {<<"a">>, <<"a", "-", "b">>, <<"a", "B">>},
             docs : {None, Some(""), Some("http://server/index-page")},
             local : LocalDocs,
             topic : {"", "content 2", "DiscourseError"}]
    /\ index_pc = "start"
    /\ index_calls = <<>>
    /\ index_server = None
    /\ index_return = None
    /\ page = <<>>
    /\ page_pc = "idle"
    /\ page_contents = <<>>
    /\ fs = {}
    /\ SortIdle
    /\ HierIdle
    /\ ParseIdle
    /\ NavIdle
    /\ run_inputs = <<>>
    /\ run_pc = "idle"
    /\ run_calls = <<>>
    /\ run_reports = <<>>
    /\ run_return = {}

\* index.py:70-71: the metadata has no docs link.
SkipServer ==
    /\ index_pc = "start"
    /\ ~RetrievesTopic(index_inputs.docs)
    /\ index_server' = None
    /\ index_pc' = "local"
    /\ UNCHANGED <<notIndexVars, index_inputs, index_calls, index_return>>

\* index.py:63-69: the index page is retrieved from the server, at the URL that
\* metadata.docs holds.
RetrieveTopic ==
    /\ index_pc = "start"
    /\ RetrievesTopic(index_inputs.docs)
    /\ index_inputs.topic # "DiscourseError"
    /\ index_calls' = Append(index_calls, index_inputs.docs)
    /\ index_server' = Some(Page(index_inputs.docs, index_inputs.topic))
    /\ index_pc' = "local"
    /\ UNCHANGED <<notIndexVars, index_inputs, index_return>>

\* index.py:65-68: retrieve_topic raises DiscourseError.
RetrieveTopicRaises ==
    /\ index_pc = "start"
    /\ RetrievesTopic(index_inputs.docs)
    /\ index_inputs.topic = "DiscourseError"
    /\ index_calls' = Append(index_calls, index_inputs.docs)
    /\ index_pc' = "ServerError"
    /\ UNCHANGED <<notIndexVars, index_inputs, index_server, index_return>>

\* index.py:73-80: the local index file is read and the Index is returned.
ReturnIndex ==
    /\ index_pc = "local"
    /\ LET local == index_inputs.local
           local_content == ReadDocsIndex(local.docs_directory, local.index_file, local.text)
       IN index_return' =
            Some(Index(index_server,
                       IndexFile(IndexTitle(index_inputs.name), local_content),
                       index_inputs.name))
    /\ index_pc' = "returned"
    /\ UNCHANGED <<notIndexVars, index_inputs, index_calls, index_server>>

NextIndex == SkipServer \/ RetrieveTopic \/ RetrieveTopicRaises \/ ReturnIndex

SpecIndex == InitIndex /\ [][NextIndex]_vars

\* ------------------------------------------------- index.contents_from_page
\* A page is the sequence of its characters.
\* constants.py:7-12: two line ends, "# Navigation", two line ends, and the two
\* lines that start the table.
NAVIGATION_TABLE_START ==
    <<"\n", "\n", "#", " ", "N", "a", "v", "i", "g", "a", "t", "i", "o", "n",
      "\n", "\n", "|", " ", "L", "e", "v", "e", "l", " ", "|", " ", "P", "a",
      "t", "h", " ", "|", " ", "N", "a", "v", "l", "i", "n", "k", " ", "|",
      "\n", "|", " ", "-", "-", " ", "|", " ", "-", "-", " ", "|", " ", "-",
      "-", " ", "|">>

\* sep stands in text at position k.
StandsAt(text, sep, k) ==
    /\ k >= 1
    /\ k + Len(sep) - 1 <= Len(text)
    /\ SubSeq(text, k, k + Len(sep) - 1) = sep

\* The positions of text at which sep stands.
Occurrences(text, sep) == {k \in 1..Len(text) : StandsAt(text, sep, k)}

\* The text before the last place where sep stands.
BeforeLast(text, sep) ==
    LET found == Occurrences(text, sep)
    IN IF found = {} THEN text
       ELSE SubSeq(text, 1, (CHOOSE k \in found : \A j \in found : j <= k) - 1)

\* index.py:92-93: text.split(sep)[0]; str.split scans from the left, so its
\* first part ends where sep first stands, and is the text when sep stands nowhere.
SplitFirst(text, sep) ==
    LET found == Occurrences(text, sep)
    IN IF found = {} THEN text
       ELSE SubSeq(text, 1, (CHOOSE k \in found : \A j \in found : k <= j) - 1)

\* The number of pieces a page is put together from.
MaxPieces == 3

\* The pieces: a character, a line end, the marker, and the marker without its
\* last or without its first character.
PagePieces ==
    { <<"x">>, <<"\n">>, NAVIGATION_TABLE_START,
      SubSeq(NAVIGATION_TABLE_START, 1, Len(NAVIGATION_TABLE_START) - 1),
      Tail(NAVIGATION_TABLE_START) }

RECURSIVE JoinPieces(_)
JoinPieces(pieces) ==
    IF pieces = <<>> THEN <<>> ELSE Head(pieces) \o JoinPieces(Tail(pieces))

\* The pages of at most MaxPieces pieces.
Pages ==
    UNION { {JoinPieces(pieces) : pieces \in [1..n -> PagePieces]} : n \in 0..MaxPieces }

\* The state when contents_from_page is called with a page.
InitPage ==
    /\ page \in Pages
    /\ page_pc = "start"
    /\ page_contents = <<>>
    /\ index_inputs = <<>>
    /\ index_pc = "idle"
    /\ index_calls = <<>>
    /\ index_server = <<>>
    /\ index_return = <<>>
    /\ fs = {}
    /\ SortIdle
    /\ HierIdle
    /\ ParseIdle
    /\ NavIdle
    /\ run_inputs = <<>>
    /\ run_pc = "idle"
    /\ run_calls = <<>>
    /\ run_reports = <<>>
    /\ run_return = {}

\* index.py:83-93: contents_from_page.
ContentsFromPage ==
    /\ page_pc = "start"
    /\ page_contents' = SplitFirst(page, NAVIGATION_TABLE_START)
    /\ page_pc' = "returned"
    /\ UNCHANGED <<notPageVars, page>>

NextPage == ContentsFromPage

SpecPage == InitPage /\ [][NextPage]_vars

\* ------------------------------------------------------------ run_reconcile
\* A call made to a collaborator, with the argument that matters ("" for none).
Call(name, arg) == [call |-> name, arg |-> arg]

\* The calls of the given name made so far.
CallsOf(name) == {i \in DOMAIN run_calls : run_calls[i].call = name}

\* action.DRY_RUN_NAVLINK_LINK and action.FAIL_NAVLINK_LINK (__init__.py:8): the
\* locations of reports that stand for no page.
DRY_RUN_NAVLINK_LINK == "<not created due to dry run>"
FAIL_NAVLINK_LINK == "<not created due to error>"

\* An ActionReport, by its location ("None" for None) and its result.
ActionReport(location, result) == [location |-> location, result |-> result]

\* The reports run_all_actions gives: of a page, of an action without a location,
\* of a dry run and of a failed action.
ActionReports ==
    { ActionReport("url_1", "success"),
      ActionReport("None", "skip"),
      ActionReport(DRY_RUN_NAVLINK_LINK, "success"),
      ActionReport(FAIL_NAVLINK_LINK, "fail") }

\* One action of get_reconcile_actions: whether check_conflicts reports a problem
\* for it, and the report its execution gives.
ReconcileAction(problem, report) == [problem |-> problem, report |-> report]

\* user_inputs.commit_sha
commit_sha == "commit_sha"
DOCUMENTATION_TAG == "DOCUMENTATION_TAG"

\* __init__.py:76-80: the problems check_conflicts yields for the actions.
Problems(actions) == {i \in DOMAIN actions : actions[i].problem}

\* A check whose problems are never acted on.
ProblemsIgnored(problems) == FALSE

\* __init__.py:81
ProblemsRaise(problems) == problems # {}

\* __init__.py:96-98: the reports that enter urls_with_actions.
ReportKept(report) ==
    /\ report.location # "None"
    /\ report.location # DRY_RUN_NAVLINK_LINK
    /\ report.location # FAIL_NAVLINK_LINK

\* __init__.py:93-99: the dict comprehension, as the set of its (key, value) pairs;
\* of two reports with one location the later one stays.
UrlsWithActions(reports) ==
    {<<reports[i].location, reports[i].result>> :
        i \in {k \in DOMAIN reports :
                /\ ReportKept(reports[k])
                /\ \A j \in (k + 1)..Len(reports) :
                        reports[j].location # reports[k].location}}

\* A tag that is moved in a dry run too.
TagsAlways(dry_run) == TRUE

\* __init__.py:101
TagsCommit(dry_run) == ~dry_run

\* An early return for a missing docs directory only.
SkipsWithoutDocsOnly(has_docs_directory, is_same_commit) == ~has_docs_directory

\* __init__.py:42-55: the two early returns.
SkipsReconcile(has_docs_directory, is_same_commit) ==
    ~has_docs_directory \/ is_same_commit

\* __init__.py:42-50: the repository is asked for the docs directory, and for the
\* commit of the tag when there is one.
ReconcileChecks(has_docs_directory) ==
    IF has_docs_directory
    THEN <<Call("has_docs_directory", ""), Call("is_same_commit", commit_sha)>>
    ELSE <<Call("has_docs_directory", "")>>

\* index.py:63-71: get_index retrieves the topic when the metadata has a docs link.
IndexCalls(docs) == IF docs = "None" THEN <<>> ELSE <<Call("retrieve_topic", docs)>>

\* The state when run_reconcile is called, for every answer of the repository, every
\* user input and every list of at most MaxActions actions.
InitReconcile ==
    /\ run_inputs \in
            [has_docs_directory : BOOLEAN, is_same_commit : BOOLEAN, dry_run : BOOLEAN,
             docs : {"None", "docs_url"},
             actions : UNION {[1..k -> {ReconcileAction(problem, report) :
                                            problem \in BOOLEAN,
                                            report \in ActionReports}] :
                                k \in 0..MaxActions}]
    /\ run_pc = "start"
    /\ run_calls = <<>>
    /\ run_reports = <<>>
    /\ run_return = {}
    /\ fs = {}
    /\ IndexIdle
    /\ SortIdle
    /\ HierIdle
    /\ ParseIdle
    /\ NavIdle

\* __init__.py:42-55: there is no docs directory, or the commit is that of the tag.
ReturnEarly ==
    /\ run_pc = "start"
    /\ SkipsReconcile(run_inputs.has_docs_directory, run_inputs.is_same_commit)
    /\ run_calls' = run_calls \o ReconcileChecks(run_inputs.has_docs_directory)
    /\ run_return' = {}
    /\ run_pc' = "returned"
    /\ UNCHANGED <<notRunVars, run_inputs, run_reports>>

\* __init__.py:57-71: the index is retrieved and the iterators of path infos, table
\* rows and actions are built.
GetActions ==
    /\ run_pc = "start"
    /\ ~SkipsReconcile(run_inputs.has_docs_directory, run_inputs.is_same_commit)
    /\ run_calls' = run_calls \o ReconcileChecks(run_inputs.has_docs_directory)
                        \o IndexCalls(run_inputs.docs)
                        \o <<Call("read_docs_directory", ""),
                             Call("navigation_table_from_page", ""),
                             Call("get_reconcile_actions", "")>>
    /\ run_pc' = "check"
    /\ UNCHANGED <<notRunVars, run_inputs, run_reports, run_return>>

\* __init__.py:60 with index.py:65-68: the retrieval of the index page fails.
GetIndexRaises ==
    /\ run_pc = "start"
    /\ ~SkipsReconcile(run_inputs.has_docs_directory, run_inputs.is_same_commit)
    /\ run_inputs.docs # "None"
    /\ run_calls' = run_calls \o ReconcileChecks(run_inputs.has_docs_directory)
                        \o IndexCalls(run_inputs.docs)
    /\ run_pc' = "ServerError"
    /\ UNCHANGED <<notRunVars, run_inputs, run_reports, run_return>>

\* __init__.py:75-84: check_conflicts consumes its copy of the actions.
CheckConflicts ==
    /\ run_pc = "check"
    /\ run_calls' = Append(run_calls, Call("check_conflicts", ""))
    /\ run_pc' = IF ProblemsRaise(Problems(run_inputs.actions)) THEN "InputError" ELSE "run"
    /\ UNCHANGED <<notRunVars, run_inputs, run_reports, run_return>>

\* __init__.py:86-92: run_all_actions is invoked.
RunAllActions ==
    /\ run_pc = "run"
    /\ run_calls' = Append(run_calls, Call("run_all_actions", ""))
    /\ run_pc' = "actions"
    /\ UNCHANGED <<notRunVars, run_inputs, run_reports, run_return>>

\* The next action is executed and gives its report.
ExecuteAction ==
    /\ run_pc = "actions"
    /\ Len(run_reports) < Len(run_inputs.actions)
    /\ run_reports' = Append(run_reports, run_inputs.actions[Len(run_reports) + 1].report)
    /\ UNCHANGED <<notRunVars, run_inputs, run_pc, run_calls, run_return>>

\* The execution of the next action raises, and with it run_all_actions.
ExecuteActionRaises ==
    /\ run_pc = "actions"
    /\ Len(run_reports) < Len(run_inputs.actions)
    /\ run_pc' = "raised"
    /\ UNCHANGED <<notRunVars, run_inputs, run_calls, run_reports, run_return>>

\* __init__.py:93-101: every report has been given; urls_with_actions is built.
CollectReports ==
    /\ run_pc = "actions"
    /\ Len(run_reports) = Len(run_inputs.actions)
    /\ run_return' = UrlsWithActions(run_reports)
    /\ run_pc' = IF TagsCommit(run_inputs.dry_run) THEN "tag" ELSE "returned"
    /\ UNCHANGED <<notRunVars, run_inputs, run_calls, run_reports>>

\* __init__.py:102-106: the documentation tag is moved to the user's commit.
TagCommit ==
    /\ run_pc = "tag"
    /\ run_calls' = Append(run_calls, Call("tag_commit", commit_sha))
    /\ run_pc' = "returned"
    /\ UNCHANGED <<notRunVars, run_inputs, run_reports, run_return>>

NextReconcile ==
    \/ ReturnEarly
    \/ GetActions
    \/ GetIndexRaises
    \/ CheckConflicts
    \/ RunAllActions
    \/ ExecuteAction
    \/ ExecuteActionRaises
    \/ CollectReports
    \/ TagCommit

SpecReconcile == InitReconcile /\ [][NextReconcile]_vars

\* -------------------------------------------------------------- run_migrate
DEFAULT_BRANCH == "DEFAULT_BRANCH"
DEFAULT_BRANCH_NAME == "DEFAULT_BRANCH_NAME"
main_hash == "main_hash"

\* The html_url of the pull requests of the repository.
PullRequestUrls == {"pr_url_1", "pr_url_2"}

\* A migration that takes only a missing link for no docs link.
NoLinkAtAll(docs) == docs = "None"

\* __init__.py:120: `not clients.repository.metadata.docs`, for no link and for an
\* empty one.
NoDocsLink(docs) == docs \in {"None", ""}

\* A migration that opens a pull request whatever it found.
CreatesAlways(pull_request) == TRUE

\* __init__.py:149, 154: a pull request is created when none was found open.
CreatesPullRequest(pull_request) == pull_request = "None"

\* A migration that leaves an open pull request open.
ClosesNothing(pull_request) == FALSE

\* __init__.py:145: an open pull request is closed when there are no changes.
ClosesPullRequest(pull_request) == pull_request # "None"

\* A migration that tags the default branch whether the tag exists or not.
TagCallsAlways(tag_exists) ==
    <<Call("tag_exists", DOCUMENTATION_TAG), Call("tag_exists", DOCUMENTATION_TAG),
      Call("with_branch", DEFAULT_BRANCH), Call("tag_commit", main_hash)>>

\* __init__.py:127-132: tag_exists is asked twice, and the tag is created on the
\* current commit of the default branch when it does not exist.
TagCalls(tag_exists) ==
    <<Call("tag_exists", DOCUMENTATION_TAG), Call("tag_exists", DOCUMENTATION_TAG)>>
    \o IF tag_exists THEN <<>>
       ELSE <<Call("with_branch", DEFAULT_BRANCH), Call("tag_commit", main_hash)>>

\* The state when run_migrate is called, for every docs link of the metadata, a tag
\* that exists or not, an open pull request or none, and docs with changes or not.
InitMigrate ==
    /\ run_inputs \in
            [docs : {"None", "", "docs_url"}, tag_exists : BOOLEAN,
             pull_request : {"None"} \cup PullRequestUrls, changes : BOOLEAN]
    /\ run_pc = "start"
    /\ run_calls = <<>>
    /\ run_reports = <<>>
    /\ run_return = {}
    /\ fs = {}
    /\ IndexIdle
    /\ SortIdle
    /\ HierIdle
    /\ ParseIdle
    /\ NavIdle

\* __init__.py:120-125: the metadata has no docs link.
ReturnWithoutDocsLink ==
    /\ run_pc = "start"
    /\ NoDocsLink(run_inputs.docs)
    /\ run_return' = {}
    /\ run_pc' = "returned"
    /\ UNCHANGED <<notRunVars, run_inputs, run_calls, run_reports>>

\* __init__.py:127-132: the documentation tag is created when it does not exist.
EnsureTag ==
    /\ run_pc = "start"
    /\ ~NoDocsLink(run_inputs.docs)
    /\ run_calls' = run_calls \o TagCalls(run_inputs.tag_exists)
    /\ run_pc' = "tagged"
    /\ UNCHANGED <<notRunVars, run_inputs, run_reports, run_return>>

\* __init__.py:134: the open pull request of the migration branch is looked up.
GetPullRequest ==
    /\ run_pc = "tagged"
    /\ run_calls' = Append(run_calls, Call("get_pull_request", DEFAULT_BRANCH_NAME))
    /\ run_pc' = "recreate"
    /\ UNCHANGED <<notRunVars, run_inputs, run_reports, run_return>>

\* __init__.py:137: the docs are recreated from the server.
RecreateDocs ==
    /\ run_pc = "recreate"
    /\ run_calls' = Append(run_calls, Call("recreate_docs", DOCUMENTATION_TAG))
    /\ run_pc' = IF run_inputs.changes THEN "changes" ELSE "no changes"
    /\ UNCHANGED <<notRunVars, run_inputs, run_reports, run_return>>

\* __init__.py:137: recreate_docs raises.
RecreateDocsRaises ==
    /\ run_pc = "recreate"
    /\ run_calls' = Append(run_calls, Call("recreate_docs", DOCUMENTATION_TAG))
    /\ run_pc' = "raised"
    /\ UNCHANGED <<notRunVars, run_inputs, run_reports, run_return>>

\* __init__.py:138-147: no changes; an open pull request is closed.
ReturnWithoutChanges ==
    /\ run_pc = "no changes"
    /\ run_calls' = IF ClosesPullRequest(run_inputs.pull_request)
                     THEN Append(run_calls, Call("edit closed", run_inputs.pull_request))
                     ELSE run_calls
    /\ run_return' = {}
    /\ run_pc' = "returned"
    /\ UNCHANGED <<notRunVars, run_inputs, run_reports>>

\* __init__.py:149-153, 158: the open pull request is updated.
UpdatePullRequest ==
    /\ run_pc = "changes"
    /\ ~CreatesPullRequest(run_inputs.pull_request)
    /\ run_calls' = Append(run_calls, Call("update_pull_request", DEFAULT_BRANCH_NAME))
    /\ run_return' = {<<run_inputs.pull_request, "success">>}
    /\ run_pc' = "returned"
    /\ UNCHANGED <<notRunVars, run_inputs, run_reports>>

\* __init__.py:154-158: a pull request is created.
CreatePullRequest ==
    /\ run_pc = "changes"
    /\ CreatesPullRequest(run_inputs.pull_request)
    /\ run_calls' = Append(run_calls, Call("create_pull_request", DOCUMENTATION_TAG))
    /\ \E html_url \in PullRequestUrls : run_return' = {<<html_url, "success">>}
    /\ run_pc' = "returned"
    /\ UNCHANGED <<notRunVars, run_inputs, run_reports>>

\* __init__.py:153, 156: the update or the creation of the pull request raises.
PullRequestRaises ==
    /\ run_pc = "changes"
    /\ run_calls' =
            Append(run_calls,
                   IF CreatesPullRequest(run_inputs.pull_request)
                   THEN Call("create_pull_request", DOCUMENTATION_TAG)
                   ELSE Call("update_pull_request", DEFAULT_BRANCH_NAME))
    /\ run_pc' = "raised"
    /\ UNCHANGED <<notRunVars, run_inputs, run_reports, run_return>>

NextMigrate ==
    \/ ReturnWithoutDocsLink
    \/ EnsureTag
    \/ GetPullRequest
    \/ RecreateDocs
    \/ RecreateDocsRaises
    \/ ReturnWithoutChanges
    \/ UpdatePullRequest
    \/ CreatePullRequest
    \/ PullRequestRaises

SpecMigrate == InitMigrate /\ [][NextMigrate]_vars

\* ------------------------------------------------- properties of the merger
\* The positions of sort_out that a hierarchy item yielded (sort.py:75).
ItemEntries == {p \in DOMAIN sort_out : sort_src[p].by = "item"}

\* The positions of sort_out that hold the given local_path.
PositionsOf(path) == {i \in DOMAIN sort_out : sort_out[i].local_path = path}

\* The index items that reference the given local_path.
ItemsFor(path) ==
    {it \in Range(rank_sorted_index_contents) : base_dir \o it.reference_value = path}

ItemOfRank(r) == CHOOSE it \in Range(rank_sorted_index_contents) : it.rank = r

\* The call has ended: it returned ("done") or raised.
SortEnded == sort_pc # "walk"

\* C1: when using_contents_index has returned, every input local_path is in the
\* emitted sequence exactly once (the output is a permutation of the input).
C1_EveryPathInfoExactlyOnce ==
    sort_pc = "done" =>
        \A x \in Range(alphabetically_sorted_path_infos) :
            Cardinality(PositionsOf(x.local_path)) = 1

\* The navlink_title C2 expects of an emitted copy of the input PathInfo x.
ExpectedTitle(x) ==
    IF ItemsFor(x.local_path) = {}
    THEN x.navlink_title
    ELSE (CHOOSE it \in ItemsFor(x.local_path) : TRUE).reference_title

\* C2: every emitted PathInfo equals an input PathInfo in every field but
\* navlink_title, which is the reference_title of the hierarchy item referencing
\* its local_path when there is one and the input's navlink_title otherwise.
C2_OnlyNavlinkTitleChanges ==
    \A i \in DOMAIN sort_out :
        \E x \in Range(alphabetically_sorted_path_infos) :
            sort_out[i] = [x EXCEPT !.navlink_title = ExpectedTitle(x)]

\* A call that returned after emitting a PathInfo under the title of its item.
C2_Witness ==
    /\ sort_pc = "done"
    /\ \E i \in DOMAIN sort_out :
       \E x \in Range(alphabetically_sorted_path_infos) :
            /\ x.local_path = sort_out[i].local_path
            /\ ItemsFor(x.local_path) # {}
            /\ sort_out[i].navlink_title # x.navlink_title

\* C3: with an empty hierarchy the call emits all input PathInfos, unchanged, in
\* ascending alphabetical_rank order.
C3_EmptyHierarchyAlphabetical ==
    (sort_pc = "done" /\ rank_sorted_index_contents = <<>>) =>
        sort_out = alphabetically_sorted_path_infos

\* The input PathInfos lying directly in directory dir, declared in the hierarchy or not.
EntriesOf(dir, declared) ==
    {x \in Range(alphabetically_sorted_path_infos) :
        /\ Parent(x.local_path) = dir
        /\ (ItemsFor(x.local_path) # {}) = declared}

\* C4: once the call has ended, in every directory with a declared entry the
\* undeclared entries have all been emitted, after every declared entry of the
\* directory and in ascending alphabetical_rank order.
C4_DeclaredThenAlphabetical ==
    SortEnded =>
        \A dir \in {base_dir} \cup {p \in fs : IsDir(p)} :
            EntriesOf(dir, TRUE) # {} =>
                /\ \A u \in EntriesOf(dir, FALSE) : PositionsOf(u.local_path) # {}
                /\ \A d \in EntriesOf(dir, TRUE), u \in EntriesOf(dir, FALSE) :
                   \A i \in PositionsOf(d.local_path), j \in PositionsOf(u.local_path) :
                        i < j
                /\ \A u, v \in EntriesOf(dir, FALSE) :
                        u.alphabetical_rank < v.alphabetical_rank =>
                            \A i \in PositionsOf(u.local_path),
                               j \in PositionsOf(v.local_path) : i < j

\* C5: when a flush has been performed for a directory (its hierarchy items are
\* exhausted), every PathInfo lying within that directory has been emitted by the
\* end of the flush, so before any hierarchy item outside the directory.
C5_FlushEmitsDirectory ==
    \A k \in DOMAIN sort_flushes :
    \A x \in Range(alphabetically_sorted_path_infos) :
        InParents(sort_flushes[k].current_dir, x.local_path) =>
            \E i \in 1..sort_flushes[k].at : sort_out[i].local_path = x.local_path

\* The rank of the first item after rank r that is not declared under the item of
\* rank r (its hierarchy is not deeper), or the number of items when there is none.
SubtreeEnd(r) ==
    LET n == Len(rank_sorted_index_contents)
        later == {r2 \in (r + 1)..(n - 1) :
                    ItemOfRank(r2).hierarchy <= ItemOfRank(r).hierarchy}
    IN IF later = {} THEN n ELSE CHOOSE r2 \in later : \A r3 \in later : r2 <= r3

\* The ranks of the items declared under the item of rank r.
DeclaredUnder(r) == (r + 1)..(SubtreeEnd(r) - 1)

\* C6: the hierarchy items declared under a consumed directory item are emitted
\* right after it (the first of them immediately), all of them before any later
\* sibling of the directory.
C6_ChildrenFollowDirectory ==
    \A p \in ItemEntries :
        LET r == sort_src[p].rank
        IN IsDir(sort_out[p].local_path) =>
            /\ (DeclaredUnder(r) # {} /\ p < Len(sort_out)) =>
                    (sort_src[p + 1].by = "item" /\ sort_src[p + 1].rank = r + 1)
            /\ \A q \in ItemEntries :
                    (q > p /\ sort_src[q].rank >= SubtreeEnd(r)) =>
                        \A c \in DeclaredUnder(r) :
                            \E m \in ItemEntries : p < m /\ m < q /\ sort_src[m].rank = c
            /\ items_pos > Len(rank_sorted_index_contents) =>
                    \A c \in DeclaredUnder(r) :
                        \E m \in ItemEntries : p < m /\ sort_src[m].rank = c

\* A directory item followed by an item declared under it and then by a later
\* sibling, all three emitted.
C6_Witness ==
    \E p, q \in ItemEntries :
        /\ IsDir(sort_out[p].local_path)
        /\ DeclaredUnder(sort_src[p].rank) # {}
        /\ q > p + 1
        /\ sort_src[q].rank = SubtreeEnd(sort_src[p].rank)

\* The entries the final pass emitted (sort.py:102-105), in order.
FinalPassEmitted ==
    SubSeq(sort_out, Cardinality({i \in DOMAIN sort_out : sort_src[i].by # "final"}) + 1,
           Len(sort_out))

\* The local_paths emitted by the recursive walk.
WalkEmitted == {sort_out[i].local_path : i \in {j \in DOMAIN sort_out : sort_src[j].by # "final"}}

\* C7: the final pass emits exactly the PathInfos the walk has not emitted, in
\* alphabetical_rank order.
C7_FinalPassEmitsTheRest ==
    sort_pc = "done" =>
        FinalPassEmitted =
            FilterSeq(alphabetically_sorted_path_infos,
                      {x \in Range(alphabetically_sorted_path_infos) :
                            x.local_path \notin WalkEmitted})

\* C8: the PathInfos matched by hierarchy items are emitted in ascending order of
\* their items' rank, each being the PathInfo its item references.
C8_ItemsInRankOrder ==
    /\ \A p, q \in ItemEntries : p < q => sort_src[p].rank < sort_src[q].rank
    /\ \A p \in ItemEntries :
            sort_out[p].local_path = base_dir \o ItemOfRank(sort_src[p].rank).reference_value

\* A call that returned after emitting the PathInfos of two or more items.
C8_Witness ==
    /\ sort_pc = "done"
    /\ \E p, q \in ItemEntries : p < q /\ sort_src[q].rank = sort_src[p].rank + 1

\* ---------------------------------------- properties of the hierarchy builder
\* The parsed item (a position of parsed_items) an emitted item came from.
ParsedOf(emitted) ==
    CHOOSE k \in DOMAIN parsed_items : parsed_items[k].rank = emitted.rank

\* C9: when the builder has accepted the contents list, it has emitted exactly one
\* hierarchy item per parsed item: the same number, the i-th from the i-th.
C9_OneItemPerParsedItem ==
    hier_pc = "done" =>
        /\ Len(hier_out) = Len(parsed_items)
        /\ \A i \in DOMAIN hier_out : hier_out[i].rank = parsed_items[i].rank

\* An accepted contents list of a directory item followed by its child.
C9_Witness ==
    /\ hier_pc = "done"
    /\ Len(parsed_items) >= 2
    /\ \E i \in DOMAIN hier_out : IsDir(hier_out[i].reference_value)
    /\ \E i \in DOMAIN hier_out : hier_out[i].hierarchy = 2

\* The item a parsed item is nested under by its indentation: the nearest preceding
\* item with fewer leading spaces (0 when there is none).
IndentParent(k) ==
    LET above == {j \in 1..(k - 1) :
                    parsed_items[j].whitespace_count < parsed_items[k].whitespace_count}
    IN IF above = {} THEN 0 ELSE CHOOSE j \in above : \A j2 \in above : j2 <= j

\* The nesting level the indentation implies.
RECURSIVE NestingLevel(_)
NestingLevel(k) == IF IndentParent(k) = 0 THEN 1 ELSE NestingLevel(IndentParent(k)) + 1

\* C10: every emitted hierarchy item has hierarchy >= 1, and its hierarchy is the
\* nesting level its indentation implies: 1 for an unindented item, and otherwise
\* one more than that of the directory item it is nested under.
C10_DepthIsNestingLevel ==
    \A i \in DOMAIN hier_out :
        LET k == ParsedOf(hier_out[i])
        IN /\ hier_out[i].hierarchy >= 1
           /\ hier_out[i].hierarchy = NestingLevel(k)
           /\ parsed_items[k].whitespace_count = 0 => hier_out[i].hierarchy = 1
           /\ IndentParent(k) # 0 =>
                \E j \in 1..(i - 1) :
                    /\ ParsedOf(hier_out[j]) = IndentParent(k)
                    /\ IsDir(hier_out[j].reference_value)
                    /\ hier_out[i].hierarchy = hier_out[j].hierarchy + 1

\* An accepted list whose nested item is indented by more than one space.
C10_Witness ==
    /\ hier_pc = "done"
    /\ \E i \in DOMAIN hier_out :
            /\ hier_out[i].hierarchy = 2
            /\ parsed_items[ParsedOf(hier_out[i])].whitespace_count = 2

\* The indentation expected where parsed item k stands, in the two cases of an item
\* that cannot be more indented: the first item (0), and an item that follows a
\* file item (the indentation of that file item).  -1 in any other case.
ExpectedAfterFile(k) ==
    IF k = 1 THEN 0
    ELSE IF IsFile(parsed_items[k - 1].reference_value)
         THEN parsed_items[k - 1].whitespace_count
         ELSE -1

\* Parsed item k is indented beyond what is expected where it stands.
ExceedsExpected(k) ==
    /\ ExpectedAfterFile(k) >= 0
    /\ parsed_items[k].whitespace_count > ExpectedAfterFile(k)

\* C11: an item indented beyond the expected indentation (a first item that is
\* indented, an item indented deeper than the file item before it) is never taken
\* from the iterator and never emitted; the run ends there with the "more
\* whitespace" InputError, which reports that item and the expected whitespace count.
C11_MoreWhitespaceRejected ==
    /\ hier_pc = "more whitespace" =>
            LET item == parsed_items[parsed_pos + 1]
            IN /\ hier_error.item = item
               /\ hier_error.expected \in 0..(item.whitespace_count - 1)
               /\ \A i \in DOMAIN hier_out : hier_out[i].rank # item.rank
    /\ \A k \in DOMAIN parsed_items :
            ExceedsExpected(k) =>
                /\ parsed_pos < k
                /\ \A i \in DOMAIN hier_out : hier_out[i].rank # parsed_items[k].rank
                /\ hier_pc # "done"
                /\ (hier_pc # "run" /\ parsed_pos = k - 1) =>
                        /\ hier_pc = "more whitespace"
                        /\ hier_error = InputError(parsed_items[k], ExpectedAfterFile(k))

\* A run rejected at an item that is more indented than the file item emitted before it.
C11_Witness ==
    /\ hier_pc = "more whitespace"
    /\ parsed_pos >= 1
    /\ ExceedsExpected(parsed_pos + 1)
    /\ hier_out # <<>>
    /\ hier_error.expected = parsed_items[parsed_pos].whitespace_count

\* The directory item that parsed item k is listed under: the item it is nested under
\* by its indentation, when that item references a directory and k stands at the
\* indentation of that directory's first child.  0 when there is none.
ListedUnder(k) ==
    LET j == IndentParent(k)
    IN IF /\ j # 0
          /\ IsDir(parsed_items[j].reference_value)
          /\ parsed_items[k].whitespace_count = parsed_items[j + 1].whitespace_count
       THEN j ELSE 0

\* The InputError due to an item of the given reference listed under directory dir:
\* "" when the reference is a path exactly one level below dir.
ContainmentError(reference, dir) ==
    IF ~InParents(dir, reference) /\ reference # dir
    THEN "not within the directory of its parent"
    ELSE IF Len(reference) # Len(dir) + 1
    THEN "not immediately within the directory of its parent"
    ELSE ""

\* C12: an item listed under a directory whose reference is not a path inside that
\* directory, or is inside it but not exactly one level below, is never taken from
\* the iterator nor emitted; when the items before it were all emitted the run ends
\* at it with the "not within" error in the first case and the "not immediately
\* within" error in the second, reporting the item and the directory.  The item may
\* be the first child of the directory or follow a nested sub-directory.
C12_OutsideParentRejected ==
    \A k \in DOMAIN parsed_items :
        LET j == ListedUnder(k)
            dir == parsed_items[j].reference_value
            error == ContainmentError(parsed_items[k].reference_value, dir)
        IN (j # 0 /\ error # "") =>
                /\ parsed_pos < k
                /\ \A i \in DOMAIN hier_out : hier_out[i].rank # parsed_items[k].rank
                /\ hier_pc # "done"
                /\ (hier_pc # "run" /\ parsed_pos = k - 1 /\ Len(hier_out) = k - 1) =>
                        /\ hier_pc = error
                        /\ hier_error = InputError(parsed_items[k], dir)

\* A run rejected with "not immediately within" at an item that follows a nested
\* sub-directory at the indentation of the outer directory's children.
C12_Witness ==
    /\ hier_pc = "not immediately within the directory of its parent"
    /\ parsed_pos >= 2
    /\ ListedUnder(parsed_pos + 1) \in 1..(parsed_pos - 1)
    /\ IsDir(parsed_items[parsed_pos].reference_value)
    /\ ListedUnder(parsed_pos) = ListedUnder(parsed_pos + 1)
    /\ InParents(parsed_items[parsed_pos].reference_value,
                 parsed_items[parsed_pos + 1].reference_value)
    /\ Len(hier_out) = parsed_pos

HierarchyFailed == hier_pc \notin {"idle", "run", "done"}

\* C14: when get_contents fails with a parse or validation error, no hierarchy item
\* of the document has been emitted to the consumer.
C14_AllOrNothing == HierarchyFailed => hier_out = <<>>

\* The parsed items that open the levels enclosing parsed item k, k itself included:
\* k, the item k is nested under, the item that one is nested under, and so on.
RECURSIVE EnclosingLevels(_)
EnclosingLevels(k) ==
    IF k = 0 THEN {} ELSE {k} \cup EnclosingLevels(IndentParent(k))

\* Parsed item k is less indented than the item before it.
IsDedent(k) ==
    k >= 2 /\ parsed_items[k].whitespace_count < parsed_items[k - 1].whitespace_count

\* The items of the levels open before the dedent at k that have k's indentation.
DedentTargets(k) ==
    {m \in EnclosingLevels(k - 1) :
        parsed_items[m].whitespace_count = parsed_items[k].whitespace_count}

\* C15: a dedent whose indentation is that of no enclosing level is never taken from
\* the iterator nor emitted, and when the items before it were all emitted the run
\* ends at it with the "more whitespace" InputError; a dedent to the indentation of
\* an enclosing level is never rejected for its indentation, and when emitted it
\* continues that level: same hierarchy and same directory as the level's items.
C15_DedentMatchesEnclosingLevel ==
    \A k \in DOMAIN parsed_items :
        IsDedent(k) =>
            IF DedentTargets(k) = {}
            THEN /\ parsed_pos < k
                 /\ \A i \in DOMAIN hier_out : hier_out[i].rank # parsed_items[k].rank
                 /\ hier_pc # "done"
                 /\ (hier_pc # "run" /\ parsed_pos = k - 1 /\ Len(hier_out) = k - 1) =>
                        /\ hier_pc = "more whitespace"
                        /\ hier_error.item = parsed_items[k]
            ELSE /\ ~(hier_pc = "more whitespace" /\ parsed_pos = k - 1)
                 /\ \A i \in DOMAIN hier_out :
                        hier_out[i].rank = parsed_items[k].rank =>
                            \A m \in DedentTargets(k) :
                                \E j \in 1..(i - 1) :
                                    /\ hier_out[j].rank = parsed_items[m].rank
                                    /\ hier_out[j].hierarchy = hier_out[i].hierarchy
                                    /\ Parent(hier_out[j].reference_value)
                                            = Parent(hier_out[i].reference_value)

\* An accepted list whose last item dedents by two levels at once.
C15_Witness ==
    /\ hier_pc = "done"
    /\ \E i \in 2..Len(hier_out) :
            /\ IsDedent(i)
            /\ hier_out[i - 1].hierarchy = hier_out[i].hierarchy + 2

\* ------------------------------------------ properties of the contents list parser
\* The position of the first line case-insensitively equal to "# contents" (0: none).
SectionStart ==
    LET found == {i \in DOMAIN lines : Lower(lines[i]) = ContentsHeadingText}
    IN IF found = {} THEN 0 ELSE CHOOSE i \in found : \A i2 \in found : i <= i2

\* The position of the next line starting with "#" after it (Len(lines) + 1: none).
SectionEnd ==
    LET found == {j \in (SectionStart + 1)..Len(lines) : lines[j] # <<>> /\ lines[j][1] = "#"}
    IN IF found = {} THEN Len(lines) + 1 ELSE CHOOSE j \in found : \A j2 \in found : j <= j2

\* The positions of the lines of the contents section, and of those that are not empty.
SectionLines ==
    IF ~has_content \/ SectionStart = 0 THEN {} ELSE (SectionStart + 1)..(SectionEnd - 1)

SectionListLines == {j \in SectionLines : lines[j] # <<>>}

\* C16: items and errors come only from lines of the contents section (after the
\* first "# contents" line, before the next line starting with "#"); the parser
\* reads no line beyond the heading that ends the section; an index file without
\* content or without the heading gives no item and no error; and a finished parse
\* has yielded one item per non-empty line of the section, in order.
C16_OnlyContentsSection ==
    /\ \A i \in DOMAIN parse_src : parse_src[i] \in SectionLines
    /\ parse_error # <<>> => parse_error.at \in SectionLines
    /\ SectionStart # 0 => line_pos <= SectionEnd
    /\ (~has_content \/ SectionStart = 0) =>
            parse_out = <<>> /\ parse_pc \in {"start", "done"}
    /\ parse_pc = "done" =>
            /\ {parse_src[i] : i \in DOMAIN parse_src} = SectionListLines
            /\ Len(parse_src) = Cardinality(SectionListLines)

\* A finished parse of a document whose contents section is ended by a second
\* contents heading, with a list item after it.
C16_Witness ==
    /\ parse_pc = "done"
    /\ parse_out # <<>>
    /\ SectionEnd <= Len(lines)
    /\ Lower(lines[SectionEnd]) = ContentsHeadingText
    /\ \E j \in (SectionEnd + 1)..Len(lines) : MatchItem(lines[j], TRUE).ok

FirstListLine ==
    IF SectionListLines = {} THEN 0
    ELSE CHOOSE j \in SectionListLines : \A j2 \in SectionListLines : j <= j2

\* C18: when the first list line of the section is an item with leading spaces, no
\* item is ever yielded and the parse does not go on or finish: it fails with the
\* InputError about leading whitespace, which names that line.
C18_FirstLineNotIndented ==
    (/\ FirstListLine # 0
     /\ MatchItem(lines[FirstListLine], TRUE).ok
     /\ lines[FirstListLine][1] = " ") =>
        /\ parse_out = <<>>
        /\ parse_pc \in {"start", "leading whitespace"}
        /\ parse_pc = "leading whitespace" =>
                parse_error = [line |-> lines[FirstListLine], at |-> FirstListLine]

\* The parse has failed at an indented first item that follows an empty line and is
\* followed by more lines.
C18_Witness ==
    /\ parse_pc = "leading whitespace"
    /\ parse_error.at < Len(lines)
    /\ parse_error.at > SectionStart + 1

\* The non-empty lines of the section that do not match the item grammar.
MalformedLines == {j \in SectionListLines : ~MatchItem(lines[j], TRUE).ok}

\* C19: when a non-empty line of the section does not match the item grammar, the
\* parse never finishes and yields items only from the lines before the first such
\* line; it fails with the InputError naming that line verbatim (unless the first
\* list line, before it, was an indented item, which fails the parse first).  That
\* InputError is raised for no other line.
C19_FirstMalformedLineRejected ==
    /\ parse_pc = "invalid item" => parse_error.at \in MalformedLines
    /\ MalformedLines # {} =>
            LET first == CHOOSE j \in MalformedLines : \A j2 \in MalformedLines : j <= j2
            IN /\ parse_pc # "done"
               /\ \A i \in DOMAIN parse_src : parse_src[i] < first
               /\ parse_pc = "invalid item" =>
                        parse_error = [line |-> lines[first], at |-> first]
               /\ parse_pc = "leading whitespace" =>
                        parse_error.at = FirstListLine /\ FirstListLine < first

\* The parse has failed at a malformed line that stands between two valid items.
C19_Witness ==
    /\ parse_pc = "invalid item"
    /\ parse_out # <<>>
    /\ \E j \in (parse_error.at + 1)..Len(lines) : MatchItem(lines[j], TRUE).ok

\* ------------------------------------- properties of the navigation table parser
\* The emitted rows before position i whose level is one less than that of row i.
RowsOneLevelUp(i) == {j \in 1..(i - 1) : nav_out[j].level = nav_out[i].level - 1}

\* C20: every emitted row has as many path segments as its level; a level-1 row has
\* the one-segment path of its own segment, and the path of any other row without
\* its last segment is the path of the nearest preceding row one level up.
C20_PathMatchesLevel ==
    \A i \in DOMAIN nav_out :
        /\ Len(nav_out[i].path) = nav_out[i].level
        /\ nav_out[i].level = 1 => nav_out[i].path = <<table_rows[i].segment>>
        /\ nav_out[i].level > 1 =>
                /\ RowsOneLevelUp(i) # {}
                /\ LET j == CHOOSE j \in RowsOneLevelUp(i) : \A j2 \in RowsOneLevelUp(i) : j2 <= j
                   IN Parent(nav_out[i].path) = nav_out[j].path

\* The rows from_page has handled: those emitted, and the row whose check aborted it.
RowsHandled == IF nav_pc \in {"PagePermissionError", "ServerError"} THEN row_pos + 1 ELSE row_pos

RECURSIVE LinksOf(_)
\* The non-empty links of the given rows, in order.
LinksOf(rows) ==
    IF rows = <<>> THEN <<>>
    ELSE LET rest == LinksOf(SubSeq(rows, 1, Len(rows) - 1))
             link == rows[Len(rows)].link
         IN IF link = "" THEN rest ELSE Append(rest, link)

\* C21: the write-permission check has been invoked exactly for the handled rows
\* with a non-empty link, once each, in order and with that link as the URL (never
\* for a row without a link), and every emitted row has the level, segment and link
\* of its table row.
C21_ChecksExactlyLinkedRows ==
    /\ nav_checked = LinksOf(SubSeq(table_rows, 1, RowsHandled))
    /\ \A i \in DOMAIN nav_out :
            /\ nav_out[i].level = table_rows[i].level
            /\ nav_out[i].link = table_rows[i].link
            /\ Last(nav_out[i].path) = table_rows[i].segment

\* A table with a section header and a page row has been emitted whole.
C21_Witness ==
    /\ nav_pc = "done"
    /\ \E i, j \in DOMAIN nav_out : nav_out[i].link = "" /\ nav_out[j].link # ""
    /\ Len(nav_checked) < Len(nav_out)

\* The emission of the table was aborted by a write-permission check.
TableAborted == nav_pc \in {"PagePermissionError", "ServerError"}

\* C22: when the check of a linked row answers false or fails, the emission is
\* aborted with the permission error or the server error for that row's link, and
\* no row of the table has been delivered.
C22_AbortDeliversNoRow ==
    TableAborted =>
        /\ nav_checked # <<>>
        /\ Last(nav_checked) = table_rows[row_pos + 1].link
        /\ nav_out = <<>>

\* ------------------------------------- the merger's walk, invocation by invocation
\* The index items are such as the hierarchy builder emits: every nested item comes
\* after an item referencing the directory it lies in.
NestedUnderListedDirectories ==
    \A it \in Range(rank_sorted_index_contents) :
        it.hierarchy > 1 =>
            \E dir \in Range(rank_sorted_index_contents) :
                dir.rank < it.rank /\ dir.reference_value = Parent(it.reference_value)

\* C23: every hierarchy item is consumed by the invocation of the directory it lies
\* directly in, one level below that invocation's hierarchy; an item of a shallower
\* depth is left to the invocation of its own directory.
C23_ConsumedByOwnDirectory ==
    NestedUnderListedDirectories =>
    \A p \in ItemEntries :
        LET item == ItemOfRank(sort_src[p].rank)
        IN /\ item.hierarchy = sort_src[p].current_hierarchy + 1
           /\ base_dir \o Parent(item.reference_value) = sort_src[p].current_dir

\* ------------------------------------- order and depth of the emitted hierarchy
\* The emitted item the i-th emitted item is listed under: the nearest one before it
\* with a smaller hierarchy (0 when there is none).
EmittedParent(i) ==
    LET above == {j \in 1..(i - 1) : hier_out[j].hierarchy < hier_out[i].hierarchy}
    IN IF above = {} THEN 0 ELSE CHOOSE j \in above : \A j2 \in above : j2 <= j

\* C24: the builder emits the hierarchy items in the order of the parsed items, the
\* i-th from the i-th with its title, reference value and rank unchanged, so ranks
\* are strictly increasing; the order is a depth-first pre-order: every nested item
\* follows the item of its directory, with only items of that directory's subtree
\* in between.
C24_EmittedInParsedOrder ==
    /\ Len(hier_out) <= Len(parsed_items)
    /\ \A i \in DOMAIN hier_out :
            /\ hier_out[i].reference_title = parsed_items[i].reference_title
            /\ hier_out[i].reference_value = parsed_items[i].reference_value
            /\ hier_out[i].rank = parsed_items[i].rank
            /\ hier_out[i].hierarchy > 1 =>
                    /\ EmittedParent(i) # 0
                    /\ hier_out[EmittedParent(i)].hierarchy = hier_out[i].hierarchy - 1
                    /\ hier_out[EmittedParent(i)].reference_value
                            = Parent(hier_out[i].reference_value)
    /\ \A i, j \in DOMAIN hier_out : i < j => hier_out[i].rank < hier_out[j].rank

\* An accepted list of a directory, its child and then the directory's sibling.
C24_Witness ==
    /\ hier_pc = "done"
    /\ \E i \in DOMAIN hier_out :
            /\ i + 2 \in DOMAIN hier_out
            /\ hier_out[i].hierarchy = 1
            /\ hier_out[i + 1].hierarchy = 2
            /\ hier_out[i + 2].hierarchy = 1
            /\ hier_out[i + 2].reference_value # hier_out[i].reference_value

RECURSIVE AncestorEntries(_)
\* The entries of the source list the parsed item k is nested under.
AncestorEntries(k) ==
    IF IndentParent(k) = 0 THEN {}
    ELSE {IndentParent(k)} \cup AncestorEntries(IndentParent(k))

\* C25 as stated: the hierarchy of every emitted item is the number of directory
\* entries of the source list it is nested under.
C25_DepthIsAncestorCount ==
    \A i \in DOMAIN hier_out :
        hier_out[i].hierarchy = Cardinality(AncestorEntries(i))

\* C25, amended: the hierarchy of every emitted item is one more than the number
\* of entries of the source list it is nested under (1 at the top level), and
\* those entries are directories its reference lies within.
C25_DepthIsAncestorCountPlusOne ==
    \A i \in DOMAIN hier_out :
        /\ hier_out[i].hierarchy = Cardinality(AncestorEntries(i)) + 1
        /\ \A a \in AncestorEntries(i) :
                /\ IsDir(base_dir \o parsed_items[a].reference_value)
                /\ InParents(parsed_items[a].reference_value,
                             parsed_items[i].reference_value)

\* An accepted list with an item nested under two directory entries.
C25_Witness ==
    /\ hier_pc = "done"
    /\ \E i \in DOMAIN hier_out :
            Cardinality(AncestorEntries(i)) = 2 /\ hier_out[i].hierarchy = 3

\* ------------------------------------------------- the leader of a list line
\* The length of the leader token at the start of l as the grammar of the contents
\* list describes it: a dash, a star, or one or more digits and a dot (0: none).
LeaderTokenLen(l) ==
    LET digits == PrefixLen(l, DigitChars)
    IN IF Len(l) >= 1 /\ l[1] \in {"*", "-"} THEN 1
       ELSE IF digits >= 1 /\ digits < Len(l) /\ l[digits + 1] = "." THEN digits + 1
       ELSE 0

\* The line l with its leader token replaced by a dash.
WithDashLeader(l) ==
    LET whitespace_count == PrefixLen(l, {" "})
        after_spaces == SubSeq(l, whitespace_count + 1, Len(l))
    IN SubSeq(l, 1, whitespace_count) \o <<"-">>
        \o SubSeq(after_spaces, LeaderTokenLen(after_spaces) + 1, Len(after_spaces))

\* The lines the parser has read that start with a leader token.
LinesReadWithLeader ==
    {j \in 2..line_pos :
        LeaderTokenLen(SubSeq(lines[j], PrefixLen(lines[j], {" "}) + 1, Len(lines[j]))) # 0}

\* C26: a line the parser has read whose leader is a dash, a star or an ordinal of
\* one or more digits is matched exactly as the same line with a dash leader: both
\* are accepted and give the same whitespace count, title and value.
C26_LeaderCarriesNoMeaning ==
    \A j \in LinesReadWithLeader :
        /\ ItemPattern(lines[j]).ok
        /\ ItemPattern(lines[j]) = ItemPattern(WithDashLeader(lines[j]))

\* ------------------------------------------------ properties of run_reconcile
\* check_conflicts has been consumed for the actions of this run.
ConflictsChecked == CallsOf("check_conflicts") # {}

\* C27: once check_conflicts has reported at least one problem, run_reconcile has
\* raised InputError, run_all_actions has not been invoked, no action has been
\* executed and the documentation tag has not been moved.
C27_ProblemsStopTheRun ==
    (ConflictsChecked /\ Problems(run_inputs.actions) # {}) =>
        /\ run_pc = "InputError"
        /\ CallsOf("run_all_actions") = {}
        /\ run_reports = <<>>
        /\ CallsOf("tag_commit") = {}

\* A run that is not a dry run raised InputError for the second of two actions.
C27_Witness ==
    /\ run_pc = "InputError"
    /\ ~run_inputs.dry_run
    /\ Problems(run_inputs.actions) = {2}

NothingToReconcile ==
    ~run_inputs.has_docs_directory \/ run_inputs.is_same_commit

\* C29: without a docs directory, or at the commit of the tag, run_reconcile
\* returns an empty mapping and has retrieved no index, built and executed no
\* action and moved no tag.
C29_NothingToReconcile ==
    (run_pc # "start" /\ NothingToReconcile) =>
        /\ run_pc = "returned"
        /\ run_return = {}
        /\ \A i \in DOMAIN run_calls :
                run_calls[i].call \in {"has_docs_directory", "is_same_commit"}
        /\ run_reports = <<>>

\* A run at the commit of the tag, of a repository with a docs directory, a docs
\* link and actions to perform.
C29_Witness ==
    /\ run_pc = "returned"
    /\ run_inputs.has_docs_directory
    /\ run_inputs.is_same_commit
    /\ run_inputs.docs # "None"
    /\ run_inputs.actions # <<>>

\* -------------------------------------------------- properties of run_migrate
\* recreate_docs has reported changes.
ChangesReported == run_pc \in {"changes", "returned", "raised"}
                        /\ CallsOf("recreate_docs") # {} /\ run_inputs.changes

\* C30: when recreate_docs reports changes, a pull request is created only if none
\* was found open and the open one is updated otherwise, never both and never a
\* second one; a run that returns has done one of the two and returns the single
\* entry that maps the URL of that pull request to the success result.
C30_OnePullRequest ==
    ChangesReported =>
        /\ CallsOf("create_pull_request") # {} => run_inputs.pull_request = "None"
        /\ CallsOf("update_pull_request") # {} => run_inputs.pull_request # "None"
        /\ Cardinality(CallsOf("create_pull_request")
                            \cup CallsOf("update_pull_request")) <= 1
        /\ run_pc = "returned" =>
                /\ Cardinality(CallsOf("create_pull_request")
                                    \cup CallsOf("update_pull_request")) = 1
                /\ \E html_url \in PullRequestUrls :
                        /\ run_return = {<<html_url, "success">>}
                        /\ run_inputs.pull_request # "None" =>
                                html_url = run_inputs.pull_request

\* A migration with changes that found a pull request open and returned its URL.
C30_Witness ==
    /\ run_pc = "returned"
    /\ run_inputs.changes
    /\ run_inputs.pull_request = "pr_url_2"
    /\ CallsOf("update_pull_request") # {}
    /\ run_return = {<<"pr_url_2", "success">>}

\* recreate_docs has reported that there are no changes.
NoChangesReported == CallsOf("recreate_docs") # {} /\ ~run_inputs.changes
                        /\ run_pc \in {"no changes", "returned"}

\* C31: when recreate_docs reports no changes, no pull request is created or
\* updated, and the run returns an empty mapping after closing the pull request
\* that was open, if there was one.
C31_NoChangesClosesPullRequest ==
    NoChangesReported =>
        /\ CallsOf("create_pull_request") = {}
        /\ CallsOf("update_pull_request") = {}
        /\ run_pc = "returned" =>
                /\ run_return = {}
                /\ IF run_inputs.pull_request = "None"
                   THEN CallsOf("edit closed") = {}
                   ELSE /\ Cardinality(CallsOf("edit closed")) = 1
                        /\ \A i \in CallsOf("edit closed") :
                                run_calls[i].arg = run_inputs.pull_request

\* A migration without changes that closed the pull request it found open.
C31_Witness ==
    /\ run_pc = "returned"
    /\ ~run_inputs.changes
    /\ run_inputs.pull_request = "pr_url_1"
    /\ \E i \in CallsOf("edit closed") : run_calls[i].arg = "pr_url_1"

\* C32: run_migrate calls tag_commit only when the documentation tag does not
\* exist, once, with the current commit of the default branch taken just before,
\* and before recreate_docs is called; when the tag exists it calls no tag_commit,
\* and when the tag is missing the tag has been created once the run is past that
\* point.
C32_TagCreatedWhenMissing ==
    /\ \A i \in CallsOf("tag_commit") :
            /\ ~run_inputs.tag_exists
            /\ run_calls[i].arg = main_hash
            /\ i > 1
            /\ run_calls[i - 1] = Call("with_branch", DEFAULT_BRANCH)
            /\ \A j \in CallsOf("recreate_docs") : i < j
    /\ Cardinality(CallsOf("tag_commit")) <= 1
    /\ run_inputs.tag_exists => CallsOf("tag_commit") = {}
    /\ (CallsOf("recreate_docs") # {} /\ ~run_inputs.tag_exists) =>
            CallsOf("tag_commit") # {}

\* A migration that created the missing tag and then recreated the docs.
C32_Witness ==
    /\ ~run_inputs.tag_exists
    /\ CallsOf("tag_commit") # {}
    /\ CallsOf("recreate_docs") # {}

\* C33: when the metadata has no docs link, run_migrate returns an empty mapping
\* and has made no call to the repository: no tag lookup or creation, no pull
\* request lookup, creation, update or closing, and no recreation of docs.
C33_NoDocsLinkNoOperation ==
    (run_pc # "start" /\ run_inputs.docs \in {"None", ""}) =>
        /\ run_pc = "returned"
        /\ run_return = {}
        /\ run_calls = <<>>

\* A migration of a charm whose docs link is empty, with a pull request open.
C33_Witness ==
    /\ run_pc = "returned"
    /\ run_inputs.docs = ""
    /\ run_inputs.pull_request # "None"
    /\ ~run_inputs.tag_exists

\* ----------------------------------------------------- properties of index.get
\* index.get has ended: it returned or raised.
IndexEnded == index_pc \in {"returned", "ServerError"}

MarkerFollows(k) ==
    /\ Occurrences(SubSeq(page, 1, k), NAVIGATION_TABLE_START) = {}
    /\ StandsAt(page, NAVIGATION_TABLE_START, k + 1)

\* C35: contents_from_page returns the text before the first navigation table
\* start marker: whenever the page is a content without the marker, the marker and
\* anything after it, the content is returned, and a page without the marker is
\* returned unchanged.
C35_ContentsBeforeFirstMarker ==
    page_pc = "returned" =>
        /\ \A k \in 0..Len(page) : MarkerFollows(k) => page_contents = SubSeq(page, 1, k)
        /\ Occurrences(page, NAVIGATION_TABLE_START) = {} => page_contents = page

\* A page with a content, the marker and a second marker after it.
C35_Witness ==
    /\ page_pc = "returned"
    /\ Cardinality(Occurrences(page, NAVIGATION_TABLE_START)) = 2
    /\ MarkerFollows(1)

\* ------------------------------------ depth and reference of an emitted item
\* C36: the hierarchy of every emitted hierarchy item is the number of path
\* segments of its reference value.
C36_DepthIsSegmentCount ==
    \A i \in DOMAIN hier_out :
        hier_out[i].hierarchy = Len(hier_out[i].reference_value)

\* An accepted list whose items have references of one, two and three segments.
C36_Witness ==
    /\ hier_pc = "done"
    /\ \A n \in 1..3 : \E i \in DOMAIN hier_out : Len(hier_out[i].reference_value) = n

\* The j-th emitted item is the last one before the i-th with the hierarchy just
\* above that of the i-th.
LastOfLevelAbove(j, i) ==
    /\ j < i
    /\ hier_out[j].hierarchy = hier_out[i].hierarchy - 1
    /\ \A m \in (j + 1)..(i - 1) : hier_out[m].hierarchy # hier_out[i].hierarchy - 1

\* C37: every item emitted with a hierarchy above 1 comes after a directory item
\* whose reference value is the parent path of the item's reference value, and
\* that directory item is the most recently emitted item of the hierarchy just above.
C37_ParentDirectoryEmittedBefore ==
    \A i \in DOMAIN hier_out :
        hier_out[i].hierarchy > 1 =>
            \E j \in DOMAIN hier_out :
                /\ LastOfLevelAbove(j, i)
                /\ IsDir(base_dir \o hier_out[j].reference_value)
                /\ hier_out[j].reference_value = Parent(hier_out[i].reference_value)

\* An accepted list in which a nested item's directory is not the item just before
\* it: items of a deeper directory lie in between.
C37_Witness ==
    /\ hier_pc = "done"
    /\ \E i, j \in DOMAIN hier_out :
            /\ j < i - 1
            /\ hier_out[i].hierarchy > 1
            /\ LastOfLevelAbove(j, i)

\* ----------------------------------------- termination of the hierarchy builder
\* The builder raised: it left its loop with an error.
BuilderRaises == hier_pc = "run" /\ hier_pc' \notin {"run", "done"}

\* The running invocation returned to its caller.
InvocationReturns ==
    /\ hier_pc = "run"
    /\ hier_pc' \in {"run", "done"}
    /\ Len(hier_stack') = Len(hier_stack) - 1

\* The running invocation starts an iteration of its loop: it has peeked at the
\* parsed items and acts on what it saw.
IterationStarts ==
    /\ hier_pc = "run"
    /\ Top(hier_stack).pc = "loop"
    /\ PeekReady
    /\ <<hier_stack, hier_pc, parsed_pos>>' # <<hier_stack, hier_pc, parsed_pos>>

\* The invocation goes on with one more item consumed.
ConsumesOneItem ==
    /\ parsed_pos' = parsed_pos + 1
    /\ hier_pc' = "run"
    /\ Len(hier_stack') = Len(hier_stack)

\* What a step of the builder does to the parsed items and to its invocations.
IterationProgresses ==
    /\ IterationStarts =>
            \/ ConsumesOneItem
            \/ (InvocationReturns /\ parsed_pos' = parsed_pos)
            \/ (BuilderRaises /\ parsed_pos' = parsed_pos)
    /\ parsed_pos' \in {parsed_pos, parsed_pos + 1}
    /\ (InvocationReturns /\ Len(hier_stack) = 1) =>
            (hier_stack[1].whitespace_expectation = 0 /\ PeekParsed = 0)

\* C38: the hierarchy builder always terminates; an iteration of its loop consumes
\* exactly one parsed item, returns to its caller or raises, and no step takes more
\* than one item or gives one back; the top-level invocation expects indentation 0
\* and returns only when no item is left, so a run that ended without error has
\* read the parsed items to their end and consumed every one.
C38_BuilderTerminates ==
    /\ <>(hier_pc # "run")
    /\ [][IterationProgresses]_vars
    /\ [](hier_pc = "done" =>
            /\ hier_stack = <<>>
            /\ parsed_end
            /\ parsed_pos = Len(parsed_items))

\* A run that ended without error after an invocation for the children of a
\* directory returned on a less indented item.
C38_Witness ==
    /\ hier_pc = "done"
    /\ parsed_pos = Len(parsed_items)
    /\ \E k \in DOMAIN parsed_items :
            /\ k + 1 \in DOMAIN parsed_items
            /\ parsed_items[k + 1].whitespace_count < parsed_items[k].whitespace_count

\* ------------------------------------------------ completion of the merger
\* Every hierarchy item references the local path of a supplied PathInfo.
ItemsReferencePathInfos ==
    \A it \in Range(rank_sorted_index_contents) :
        base_dir \o it.reference_value \in DOMAIN local_path_path_info

\* C39: when every hierarchy item references an existing PathInfo,
\* using_contents_index never raises, the flush for base_dir included, although
\* base_dir has no PathInfo and no position in the directory index.
C39_RunsToCompletion ==
    ItemsReferencePathInfos => sort_pc # "KeyError"
====
